---- MODULE Spec2Model ----
(***************************************************************************)
(* PitchLens front-end: the client-side orchestration of asynchronous      *)
(* backend jobs.  Each React component is a group of variables (its hook   *)
(* state, its timers, its requests in flight); each handler, callback and  *)
(* server reply is one action.  The backend is an external collaborator:   *)
(* it answers a request at some moment between the request being sent and  *)
(* the reply being received, and replies are delivered in any order.       *)
(***************************************************************************)
EXTENDS Integers, Sequences, FiniteSets, TLC

(***************************************************************************)
(* Bounds of the model.                                                    *)
(***************************************************************************)
\* poll requests of one dashboard that may be in flight together
MaxInFlight == 2
\* number of times the backend regenerates the memo of the deal
MaxVer == 1
\* poll replies without effect that are counted
MaxFailed == 1
\* deals on the investor's list
MaxDeals == 2
\* length of the message list of the interview page
MaxMessages == 5
\* length of the message list of the investor chatbot
MaxChat == 5
\* issues listed by IssuesTab
MaxIssues == 2
\* requests handed to fetch by the API client and AuthModal
MaxFetches == 3
\* reports the backend produces for one deal
MaxReports == 2
\* gates of the credit memo
MaxGates == 2

(***************************************************************************)
(* State.                                                                  *)
(***************************************************************************)
VARIABLES
    \* ---- AnalysisDashboard (components/analysis-dashboard.tsx)
    mounted,                \* the dashboard component is mounted
    backend,                \* the deal record held by the backend
    analysisData,           \* useState(initialAnalysisData)
    investmentDecision,     \* useState<any>(null): TRUE when set
    pollInterval,           \* the setInterval timer of the poll effect is live
    polls,                  \* the poll requests in flight, by slot
    isRecalculating,        \* useState(false)
    isCustomizeDialogOpen,  \* useState(false)
    weights,                \* useState<Weightages>
    rcPc,                   \* position of handleRecalculate
    rcBody,                 \* body of the generate_memo request
    rcResp,                 \* reply the handler is awaiting
    toast,                  \* title of the last toast shown
    lateUpdate,             \* a reply called setAnalysisData after unmount
    failedPolls,            \* poll replies that changed nothing (saturating)
    recalcShown,            \* version handleRecalculate last put on display
    \* ---- InvestorDashboard (the deal list page)
    startups,               \* useState<any[]>([]): the deals on display
    serverDeals,            \* the deals the backend holds
    dels,                   \* per deal, the handleDelete call in flight
    listToast,              \* title of the last toast of the page
    \* ---- InterviewPage (app/interview/[token]/page.tsx)
    isLoading,              \* useState(true)
    error,                  \* useState<string | null>(null)
    validationData,         \* useState<ValidationResponse | null>(null)
    messages,               \* useState<ChatMessage[]>([])
    input,                  \* useState('')
    isSending,              \* useState(false)
    validateReq,            \* the validate request of the mount effect
    sendReq,                \* the handleSendMessage call in flight
    pageToast,              \* title of the last toast of the page
    \* ---- Chatbot (the investor chat widget)
    chatMessages,           \* useState<Message[]>([])
    chatInput,              \* useState('')
    chatLoading,            \* useState(false): isLoading
    chatReq,                \* the handleSendMessage call in flight
    storage,                \* localStorage: the entry chat_history_<dealId> of
                            \* every deal
    chatMounted,            \* a Chatbot instance is mounted
    chatDeal,               \* analysisData.metadata.deal_id of the instance
    \* ---- the tab strip of the dashboard (both variants)
    tabVariant,             \* which dashboard file renders the record
    tabData,                \* the fields of analysisData the tab strip reads
    tabList,                \* the TabsTrigger values on display
    \* ---- FileUpload (components/file-upload.tsx) and its two hosts
    upHost,                 \* UploadPage ("page") or the list page's dialog
    upVariant,              \* the CMA variant or the multi-input variant
    upMounted,              \* the FileUpload component is mounted
    activeTab,              \* useState("pdf")
    pitchDeck,              \* useState<File | null>(null)
    cmaFile,                \* useState<File | null>(null)
    videoFile,              \* useState<File | null>(null)
    audioFile,              \* useState<File | null>(null)
    textInput,              \* useState('')
    processingMode,         \* useState<'fast' | 'research'>
    upLoading,              \* useState(false): isLoading
    upError,                \* useState<string | null>(null): error
    upReq,                  \* the handleUploadClick call in flight
    upToast,                \* title of the last toast of the component
    generated,              \* onGenerate was called by the last reply
    route,                  \* the view the router shows
    isUploadDialogOpen,     \* useState(false) of InvestorDashboard
    listLoading,            \* useState(true) of InvestorDashboard: isLoading
    listError,              \* useState<string | null>(null) of the list page
    fetchReq,               \* the fetchDeals call in flight
    \* ---- IssuesTab and the meeting dialog of the dashboard
    meetHost,               \* the component that owns the meeting dialog
    issues,                 \* prop issues: the fields of the listed issues
    interviewStatus,        \* prop interviewStatus
    srvInterview,           \* the status of the interview at the backend
    selectedFields,         \* useState<Set<string>>(new Set())
    isMeetingDialogOpen,    \* useState(false)
    founderName,            \* useState(defaultFounderName)
    founderEmail,           \* useState('')
    isSettingMeeting,       \* useState(false)
    isResetting,            \* useState(false)
    isGenerating,           \* useState(false)
    meetReq,                \* the handleSetMeeting call in flight
    resetReq,               \* the handleResetInterview call in flight
    genReq,                 \* the handleGenerateQuestions call in flight
    itToast,                \* title of the last toast of the component
    refreshed,              \* the last reply called onInterviewReset
    \* ---- the API client (lib/api-client.ts) and AuthModal
    currentUser,            \* auth.currentUser is a signed-in user
    afPc,                   \* where the authenticatedFetch call in flight is
    afCall,                 \* the authenticatedFetch call in flight
    lastFetch,              \* the last request handed to fetch
    fetches,                \* the number of requests handed to fetch
    isAuthOpen,             \* useState(false) of LandingPage
    step,                   \* useState<'email' | 'code'>('email')
    email,                  \* useState('')
    code,                   \* useState('')
    amLoading,              \* useState(false) of AuthModal: isLoading
    amPc,                   \* where the AuthModal handler in flight is
    amToast,                \* title of the last toast of AuthModal
    \* ---- the messages of failed requests (handleRecalculate, FileUpload)
    errCall,                \* the request whose reply is awaited
    errShown,               \* the last toast: its title and description
    \* ---- FactCheck (components/fact-check.tsx)
    fcLoading,              \* useState(false): loading
    fcData,                 \* useState(existingData || null): data
    fcError,                \* useState<string | null>(null): error
    fcReq,                  \* the runFactCheck call in flight
    fcReports,              \* the reports the backend has produced
    fcMounted,              \* the FactCheck component is mounted
    existingData,           \* prop existingData of FactCheck
    \* ---- GateAnalysis (components/credit-engine.tsx)
    gates,                  \* prop gates: the number of memo gates
    waterfallData,          \* prop waterfallData: its step numbers
    expandedGate,           \* useState<number | null>(null)
    gateClicked,            \* the gate of the last click on the stepper
    gateCrashed             \* a render of the component threw

dashVars == <<mounted, backend, analysisData, investmentDecision, pollInterval,
              polls, isRecalculating, isCustomizeDialogOpen, weights, rcPc,
              rcBody, rcResp, toast, lateUpdate, failedPolls, recalcShown>>

listVars == <<startups, serverDeals, dels, listToast>>

pageVars == <<isLoading, error, validationData, messages, input, isSending,
              validateReq, sendReq, pageToast>>

chatVars == <<chatMessages, chatInput, chatLoading, chatReq, storage,
              chatMounted, chatDeal>>

tabVars == <<tabVariant, tabData, tabList>>

formVars == <<activeTab, pitchDeck, cmaFile, videoFile, audioFile, textInput,
              processingMode>>

upVars == <<upHost, upVariant, upMounted, formVars, upLoading, upError, upReq,
            upToast, generated, route, isUploadDialogOpen, listLoading,
            listError, fetchReq>>

itVars == <<meetHost, issues, interviewStatus, srvInterview, selectedFields,
            isMeetingDialogOpen, founderName, founderEmail, isSettingMeeting,
            isResetting, isGenerating, meetReq, resetReq, genReq, itToast,
            refreshed>>

authVars == <<currentUser, afPc, afCall, lastFetch, fetches, isAuthOpen, step,
              email, code, amLoading, amPc, amToast>>

errVars == <<errCall, errShown>>

fcVars == <<fcLoading, fcData, fcError, fcReq, fcReports, fcMounted,
            existingData>>

gateVars == <<gates, waterfallData, expandedGate, gateClicked, gateCrashed>>

lateVars == <<errVars, fcVars, gateVars>>

\* the components added after the first four
moreVars == <<tabVars, upVars, itVars, authVars, lateVars>>

\* the variables of the other components
nonDashVars == <<listVars, pageVars, chatVars, moreVars>>

nonListVars == <<dashVars, pageVars, chatVars, moreVars>>

nonPageVars == <<dashVars, listVars, chatVars, moreVars>>

nonChatVars == <<dashVars, listVars, pageVars, moreVars>>

firstVars == <<dashVars, listVars, pageVars, chatVars>>

nonTabVars == <<firstVars, upVars, itVars, authVars, lateVars>>

\* FileUpload and its host write the deal list of the list page
nonUpVars == <<dashVars, dels, listToast, pageVars, chatVars, tabVars,
               itVars, authVars, lateVars>>

nonItVars == <<firstVars, tabVars, upVars, authVars, lateVars>>

nonAuthVars == <<firstVars, tabVars, upVars, itVars, lateVars>>

earlyVars == <<firstVars, tabVars, upVars, itVars, authVars>>

nonErrVars == <<earlyVars, fcVars, gateVars>>

nonFcVars == <<earlyVars, errVars, gateVars>>

nonGateVars == <<earlyVars, errVars, fcVars>>

vars == <<dashVars, listVars, pageVars, chatVars, moreVars>>

(***************************************************************************)
(* The deal record, reduced to what the orchestration reads: a version     *)
(* (which memo the record carries) and whether investment_decision is      *)
(* present.                                                                *)
(***************************************************************************)
DealRecord == [ver : 0..MaxVer, dec : BOOLEAN]

NoRecord == [ver |-> 0, dec |-> FALSE]

\* outcome of one HTTP exchange
Outcomes == {"ok", "non2xx", "throw"}

NoReply == [res |-> "none", data |-> NoRecord]

FreeSlot == [st |-> "free", res |-> "none", data |-> NoRecord]

Slots == 1..MaxInFlight

\* the five factors of Weightages
WeightKeys == {"teamStrength", "marketOpportunity", "traction",
               "claimCredibility", "financialHealth"}

\* positions of the slider the model lets the user choose (the slider runs
\* from 0 to 100 in steps of 5)
WeightChoices == {0, 20, 40}

\* defaultWeights?.x || 20 for a record that carries no _weightage_used
DefaultWeights == [k \in WeightKeys |-> 20]

\* no generate_memo request is in flight
NoBody == [k \in WeightKeys |-> 0]

RECURSIVE SumOver(_, _)
SumOver(f, S) ==
    IF S = {} THEN 0
    ELSE LET k == CHOOSE x \in S : TRUE
         IN  f[k] + SumOver(f, S \ {k})

\* Object.values(weights).reduce((sum, w) => sum + w, 0)
totalWeight == SumOver(weights, WeightKeys)

(***************************************************************************)
(* The poll effect: useEffect(..., [analysisData?.investment_decision]).   *)
(* Its cleanup clears the timer; its body starts one unless the record     *)
(* already carries an investment decision.  React runs it after every      *)
(* commit that changes the dependency, so every action that replaces       *)
(* analysisData ends with it.                                              *)
(***************************************************************************)
\* faulty variant: the effect body without its early return
PollEffectNoGuard(isMounted, data) == isMounted

PollEffect(isMounted, data) == isMounted /\ ~data.dec

\* dependency [analysisData?.investment_decision] of the effect: it reruns
\* unless the field was absent before the commit and is absent after it
EffectAfter(old, new, timer) ==
    IF ~old.dec /\ ~new.dec THEN timer ELSE PollEffect(mounted, new)

\* a state setter of an unmounted component is ignored by React
SetAnalysisData(new) == IF mounted THEN new ELSE analysisData

\* faulty variant: replies are sequenced, an older record is not applied
PollAppliesIfNewer(reply) ==
    reply.res = "ok" /\ reply.data.dec /\ reply.data.ver >= analysisData.ver

\* faulty variant: every 2xx reply is applied
PollAppliesAnyRecord(reply) == reply.res = "ok"

\* if (response.ok) { ... if (updatedData.investment_decision) {
PollApplies(reply) == reply.res = "ok" /\ reply.data.dec

\* faulty variant: a poll without effect gives up and clears the timer
PollNoOpStops(timer) == FALSE

\* the paths of the interval callback that end without a state update: a
\* non-2xx reply, a record without investment_decision, and
\* catch (error) { console.error(...) }; none of them touches the timer
PollNoOp(timer) == timer

Min(a, b) == IF a < b THEN a ELSE b

\* faulty variant: the button is disabled only while a request is running
GenerateDisabledBusyOnly == isRecalculating

\* disabled={totalWeight !== 100 || isRecalculating}
GenerateDisabled == totalWeight # 100 \/ isRecalculating

LowestFree == CHOOSE i \in Slots :
    /\ polls[i].st = "free"
    /\ \A j \in Slots : polls[j].st = "free" => i <= j

(***************************************************************************)
(* AnalysisDashboard: the investment-decision poll.                        *)
(***************************************************************************)
\* one tick of setInterval(..., 10000): the callback sends GET /api/deals/id
PollTick ==
    /\ pollInterval
    /\ \E i \in Slots : polls[i].st = "free"
    /\ polls' = [polls EXCEPT ![LowestFree] = [FreeSlot EXCEPT !.st = "sent"]]
    /\ UNCHANGED <<mounted, backend, analysisData, investmentDecision,
                   pollInterval, isRecalculating, isCustomizeDialogOpen,
                   weights, rcPc, rcBody, rcResp, toast, lateUpdate,
                   failedPolls, recalcShown>>
    /\ UNCHANGED nonDashVars

\* the backend answers a poll: 2xx with the record as it is now, a non-2xx
\* status, or the exchange throws
ServerPoll(i) ==
    /\ polls[i].st = "sent"
    /\ \E res \in Outcomes :
         polls' = [polls EXCEPT ![i] =
                     [st |-> "resp", res |-> res,
                      data |-> IF res = "ok" THEN backend ELSE NoRecord]]
    /\ UNCHANGED <<mounted, backend, analysisData, investmentDecision,
                   pollInterval, isRecalculating, isCustomizeDialogOpen,
                   weights, rcPc, rcBody, rcResp, toast, lateUpdate,
                   failedPolls, recalcShown>>
    /\ UNCHANGED nonDashVars

\* the rest of the interval callback, after the await
PollReply(i) ==
    /\ polls[i].st = "resp"
    /\ polls' = [polls EXCEPT ![i] = FreeSlot]
    /\ IF PollApplies(polls[i])
       THEN /\ analysisData' = SetAnalysisData(polls[i].data)
            /\ investmentDecision' = (mounted \/ investmentDecision)
            /\ pollInterval' = EffectAfter(analysisData, analysisData', FALSE)
            /\ toast' = "Investment Decision Ready"
            /\ lateUpdate' = (lateUpdate \/ ~mounted)
            /\ UNCHANGED failedPolls
       ELSE /\ pollInterval' = PollNoOp(pollInterval)
            /\ failedPolls' = Min(failedPolls + 1, MaxFailed)
            /\ UNCHANGED <<analysisData, investmentDecision, toast,
                           lateUpdate>>
    /\ UNCHANGED <<mounted, backend, isRecalculating, isCustomizeDialogOpen,
                   weights, rcPc, rcBody, rcResp, recalcShown>>
    /\ UNCHANGED nonDashVars

\* faulty variant: the cleanup also aborts the polls in flight
UnmountAborting ==
    /\ mounted
    /\ mounted' = FALSE
    /\ pollInterval' = FALSE
    /\ polls' = [i \in Slots |-> FreeSlot]
    /\ UNCHANGED <<backend, analysisData, investmentDecision,
                   isRecalculating, isCustomizeDialogOpen, weights, rcPc,
                   rcBody, rcResp, toast, lateUpdate, failedPolls,
                   recalcShown>>
    /\ UNCHANGED nonDashVars

\* the component is torn down: the cleanup of the effect clears the timer;
\* nothing aborts the requests in flight
Unmount ==
    /\ mounted
    /\ mounted' = FALSE
    /\ pollInterval' = FALSE
    /\ UNCHANGED <<backend, analysisData, investmentDecision, polls,
                   isRecalculating, isCustomizeDialogOpen, weights, rcPc,
                   rcBody, rcResp, toast, lateUpdate, failedPolls,
                   recalcShown>>
    /\ UNCHANGED nonDashVars

\* the backend job attaches the investment decision to the record
BackendDecide ==
    /\ ~backend.dec
    /\ backend' = [backend EXCEPT !.dec = TRUE]
    /\ UNCHANGED <<mounted, analysisData, investmentDecision, pollInterval,
                   polls, isRecalculating, isCustomizeDialogOpen, weights,
                   rcPc, rcBody, rcResp, toast, lateUpdate, failedPolls,
                   recalcShown>>
    /\ UNCHANGED nonDashVars

(***************************************************************************)
(* AnalysisDashboard: the customize dialog and handleRecalculate.          *)
(***************************************************************************)
\* DialogTrigger, or NoDataComponent's onGenerateClick
OpenDialog ==
    /\ mounted /\ ~isCustomizeDialogOpen
    /\ isCustomizeDialogOpen' = TRUE
    /\ UNCHANGED <<mounted, backend, analysisData, investmentDecision,
                   pollInterval, polls, isRecalculating, weights, rcPc,
                   rcBody, rcResp, toast, lateUpdate, failedPolls,
                   recalcShown>>
    /\ UNCHANGED nonDashVars

\* DialogClose, or onOpenChange(false)
CloseDialog ==
    /\ mounted /\ isCustomizeDialogOpen
    /\ isCustomizeDialogOpen' = FALSE
    /\ UNCHANGED <<mounted, backend, analysisData, investmentDecision,
                   pollInterval, polls, isRecalculating, weights, rcPc,
                   rcBody, rcResp, toast, lateUpdate, failedPolls,
                   recalcShown>>
    /\ UNCHANGED nonDashVars

handleWeightChange(key, value) ==
    /\ mounted /\ isCustomizeDialogOpen
    /\ weights[key] # value
    /\ weights' = [weights EXCEPT ![key] = value]
    /\ UNCHANGED <<mounted, backend, analysisData, investmentDecision,
                   pollInterval, polls, isRecalculating,
                   isCustomizeDialogOpen, rcPc, rcBody, rcResp, toast,
                   lateUpdate, failedPolls, recalcShown>>
    /\ UNCHANGED nonDashVars

\* click on Generate Summary: handleRecalculate up to the first await
handleRecalculate ==
    /\ mounted /\ isCustomizeDialogOpen
    /\ ~GenerateDisabled
    /\ rcPc = "idle"
    /\ isRecalculating' = TRUE
    /\ rcBody' = weights
    /\ rcPc' = "post"
    /\ UNCHANGED <<mounted, backend, analysisData, investmentDecision,
                   pollInterval, polls, isCustomizeDialogOpen, weights,
                   rcResp, toast, lateUpdate, failedPolls, recalcShown>>
    /\ UNCHANGED nonDashVars

\* the backend answers POST /api/generate_memo/id; a 2xx reply means the
\* memo was regenerated with the new weights
ServerGenerateMemo ==
    /\ rcPc = "post"
    /\ \E res \in Outcomes :
         /\ res = "ok" => backend.ver < MaxVer
         /\ backend' = IF res = "ok"
                       THEN [backend EXCEPT !.ver = @ + 1] ELSE backend
         /\ rcResp' = [res |-> res, data |-> NoRecord]
    /\ rcPc' = "postReply"
    /\ UNCHANGED <<mounted, analysisData, investmentDecision, pollInterval,
                   polls, isRecalculating, isCustomizeDialogOpen, weights,
                   rcBody, toast, lateUpdate, failedPolls, recalcShown>>
    /\ UNCHANGED nonDashVars

\* faulty variant: the failure path closes the dialog as the success path does
RecalcFailedClosing ==
    /\ toast' = "Update Failed"
    /\ isRecalculating' = FALSE
    /\ isCustomizeDialogOpen' = FALSE
    /\ rcPc' = "idle"
    /\ rcResp' = NoReply
    /\ rcBody' = NoBody
    /\ UNCHANGED <<analysisData, pollInterval, lateUpdate, recalcShown>>

\* catch { toast destructive } finally { setIsRecalculating(false) }
RecalcFailed ==
    /\ toast' = "Update Failed"
    /\ isRecalculating' = FALSE
    /\ rcPc' = "idle"
    /\ rcResp' = NoReply
    /\ rcBody' = NoBody
    /\ UNCHANGED <<analysisData, isCustomizeDialogOpen, pollInterval,
                   lateUpdate, recalcShown>>

\* setAnalysisData(updatedAnalysisData); setIsCustomizeDialogOpen(false);
\* toast; finally { setIsRecalculating(false) }
RecalcSucceeded ==
    /\ analysisData' = SetAnalysisData(rcResp.data)
    /\ isCustomizeDialogOpen' = (~mounted /\ isCustomizeDialogOpen)
    /\ pollInterval' = EffectAfter(analysisData, analysisData', pollInterval)
    /\ toast' = "Summary Generated"
    /\ lateUpdate' = (lateUpdate \/ ~mounted)
    /\ recalcShown' = IF mounted THEN rcResp.data.ver ELSE recalcShown
    /\ isRecalculating' = FALSE
    /\ rcPc' = "idle"
    /\ rcResp' = NoReply
    /\ rcBody' = NoBody

\* handleRecalculate after the first await
RecalcPostReply ==
    /\ rcPc = "postReply"
    /\ IF rcResp.res = "ok"
       THEN /\ rcPc' = "get"
            /\ rcResp' = NoReply
            /\ UNCHANGED <<analysisData, isCustomizeDialogOpen, pollInterval,
                           toast, lateUpdate, isRecalculating, rcBody,
                           recalcShown>>
       ELSE RecalcFailed
    /\ UNCHANGED <<mounted, backend, investmentDecision, polls, weights,
                   failedPolls>>
    /\ UNCHANGED nonDashVars

\* the backend answers the follow-up GET /api/deals/id
ServerGetDeal ==
    /\ rcPc = "get"
    /\ \E res \in Outcomes :
         rcResp' = [res |-> res,
                    data |-> IF res = "ok" THEN backend ELSE NoRecord]
    /\ rcPc' = "getReply"
    /\ UNCHANGED <<mounted, backend, analysisData, investmentDecision,
                   pollInterval, polls, isRecalculating,
                   isCustomizeDialogOpen, weights, rcBody, toast, lateUpdate,
                   failedPolls, recalcShown>>
    /\ UNCHANGED nonDashVars

\* handleRecalculate after the second await
RecalcGetReply ==
    /\ rcPc = "getReply"
    /\ IF rcResp.res = "ok" THEN RecalcSucceeded ELSE RecalcFailed
    /\ UNCHANGED <<mounted, backend, investmentDecision, polls, weights,
                   failedPolls>>
    /\ UNCHANGED nonDashVars

(***************************************************************************)
(* InvestorDashboard: the deal list and handleDelete.  The list is kept as *)
(* the set of the ids on display (filter and the restored copy keep the    *)
(* order of the deals, which nothing here reads).                          *)
(***************************************************************************)
DealIds == 1..MaxDeals

NoDelete == [st |-> "idle", orig |-> {}, res |-> "none"]

\* currentStartups.filter(s => s.id !== startupId)
WithoutDeal(list, d) == list \ {d}

\* catch: setStartups(originalStartups)
RestoreList(current, original) == original

\* AlertDialogAction of a displayed deal: handleDelete up to the await
handleDelete(d) ==
    /\ d \in startups
    /\ dels[d].st = "idle"
    /\ dels' = [dels EXCEPT ![d] =
                  [st |-> "sent", orig |-> startups, res |-> "none"]]
    /\ startups' = WithoutDeal(startups, d)
    /\ UNCHANGED <<serverDeals, listToast>>
    /\ UNCHANGED nonListVars

\* the backend answers DELETE /api/deals/d
ServerDelete(d) ==
    /\ dels[d].st = "sent"
    /\ \E res \in Outcomes :
         /\ res = "ok" => d \in serverDeals
         /\ dels' = [dels EXCEPT ![d].st = "resp", ![d].res = res]
         /\ serverDeals' = IF res = "ok" THEN serverDeals \ {d}
                           ELSE serverDeals
    /\ UNCHANGED <<startups, listToast>>
    /\ UNCHANGED nonListVars

\* handleDelete after the await
DeleteReply(d) ==
    /\ dels[d].st = "resp"
    /\ IF dels[d].res = "ok"
       THEN /\ listToast' = "Analysis Deleted"
            /\ UNCHANGED startups
       ELSE /\ startups' = RestoreList(startups, dels[d].orig)
            /\ listToast' = "Deletion Failed"
    /\ dels' = [dels EXCEPT ![d] = NoDelete]
    /\ UNCHANGED serverDeals
    /\ UNCHANGED nonListVars

\* the page after fetchDeals has loaded the list
ListInit ==
    /\ serverDeals = DealIds
    /\ startups = serverDeals
    /\ dels = [d \in DealIds |-> NoDelete]
    /\ listToast = "none"

ListNext ==
    \/ \E d \in DealIds : handleDelete(d)
    \/ \E d \in DealIds : ServerDelete(d)
    \/ \E d \in DealIds : DeleteReply(d)

(***************************************************************************)
(* InterviewPage: validateToken and handleSendMessage.                     *)
(***************************************************************************)
\* what the user may type: two answers and a blank line
Texts == {"a", "b", " "}

\* input.trim()
Trim(text) == IF text = " " THEN "" ELSE text

UserMessage(text) == [role |-> "user", message |-> text]

AssistantMessage == [role |-> "assistant", message |-> "reply"]

\* the replies the validate endpoint can give: 2xx with valid true or false,
\* 403 or 404 with or without a detail, another status, a body that does not
\* parse, and a failed exchange
ValidateKinds == {"valid", "invalid", "403detail", "403", "404detail", "404",
                  "500", "badjson", "throw"}

\* status: 'active' | 'completed' | 'expired' of ValidationResponse
InterviewStatus == {"active", "completed", "expired"}

NoRequest == [st |-> "idle", kind |-> "none"]

\* faulty variant: the body is taken as valid without looking at data.valid
ValidationErrorUnchecked(kind) ==
    CASE kind \in {"403detail", "404detail"} -> "detail"
      [] kind \in {"403", "404"} ->
           "This interview link is invalid or has expired."
      [] kind = "500" -> "Failed to validate the interview session."
      [] kind = "badjson" -> "Unexpected token"
      [] kind = "throw" -> "Failed to fetch"
      [] OTHER -> "null"

\* the message validateToken ends with in setError, "null" when it throws
\* nothing
ValidationError(kind) ==
    CASE kind \in {"403detail", "404detail"} -> "detail"
      [] kind \in {"403", "404", "invalid"} ->
           "This interview link is invalid or has expired."
      [] kind = "500" -> "Failed to validate the interview session."
      [] kind = "badjson" -> "Unexpected token"
      [] kind = "throw" -> "Failed to fetch"
      [] OTHER -> "null"

\* the chain of returns of the render
View ==
    IF isLoading THEN "loading"
    ELSE IF error # "null" THEN "error"
    ELSE IF validationData = "null" THEN "notFound"
    ELSE "chat"

\* faulty variant: the input is disabled only while a message is sent
InputDisabledBusyOnly == isSending

\* disabled={isSending || validationData.status !== 'active'} of the input
InputDisabled == isSending \/ validationData # "active"

\* disabled={isSending || !input.trim() || status !== 'active'} of the button
SendDisabled == isSending \/ Trim(input) = "" \/ validationData # "active"

\* faulty variant: the failure path keeps the list as it is
KeepMessages(current, snapshot) == current

\* catch: setMessages(messages), the list of the render that sent
RevertMessages(current, snapshot) == snapshot

\* the backend answers GET /api/interviews/validate/token
ServerValidate ==
    /\ validateReq.st = "sent"
    /\ \E kind \in ValidateKinds, status \in InterviewStatus,
          history \in {<<>>, <<AssistantMessage>>} :
         validateReq' = [st |-> "resp", kind |-> kind,
                         status |-> IF kind = "valid" THEN status ELSE "none",
                         history |-> IF kind = "valid" THEN history ELSE <<>>]
    /\ UNCHANGED <<isLoading, error, validationData, messages, input,
                   isSending, sendReq, pageToast>>
    /\ UNCHANGED nonPageVars

\* validateToken after the await
ValidateReply ==
    /\ validateReq.st = "resp"
    /\ validateReq' = [validateReq EXCEPT !.st = "done"]
    /\ error' = ValidationError(validateReq.kind)
    /\ IF error' = "null"
       THEN /\ validationData' = validateReq.status
            /\ messages' = validateReq.history
       ELSE UNCHANGED <<validationData, messages>>
    /\ isLoading' = FALSE
    /\ UNCHANGED <<input, isSending, sendReq, pageToast>>
    /\ UNCHANGED nonPageVars

\* onChange of the input of the chat view
TypeInput(text) ==
    /\ View = "chat"
    /\ ~InputDisabled
    /\ input # text
    /\ input' = text
    /\ UNCHANGED <<isLoading, error, validationData, messages, isSending,
                   validateReq, sendReq, pageToast>>
    /\ UNCHANGED nonPageVars

\* the send button or the Enter key: handleSendMessage up to the await
handleSendMessage ==
    /\ View = "chat"
    /\ ~SendDisabled
    /\ Len(messages) + 2 <= MaxMessages
    /\ sendReq' = [st |-> "sent", kind |-> "none", snapshot |-> messages,
                   message |-> input]
    /\ messages' = Append(messages, UserMessage(input))
    /\ input' = ""
    /\ isSending' = TRUE
    /\ UNCHANGED <<isLoading, error, validationData, validateReq, pageToast>>
    /\ UNCHANGED nonPageVars

\* the backend answers POST /api/interviews/chat
ServerChat ==
    /\ sendReq.st = "sent"
    /\ \E res \in Outcomes :
         sendReq' = [sendReq EXCEPT !.st = "resp", !.kind = res]
    /\ UNCHANGED <<isLoading, error, validationData, messages, input,
                   isSending, validateReq, pageToast>>
    /\ UNCHANGED nonPageVars

\* handleSendMessage after the await
SendReply ==
    /\ sendReq.st = "resp"
    /\ IF sendReq.kind = "ok"
       THEN /\ messages' = Append(messages, AssistantMessage)
            /\ UNCHANGED pageToast
       ELSE /\ pageToast' = "Error"
            /\ messages' = RevertMessages(messages, sendReq.snapshot)
    /\ isSending' = FALSE
    /\ sendReq' = NoRequest
    /\ UNCHANGED <<isLoading, error, validationData, input, validateReq>>
    /\ UNCHANGED nonPageVars

\* the page as the mount effect leaves it: validateToken has sent its request
PageInit ==
    /\ isLoading = TRUE
    /\ error = "null"
    /\ validationData = "null"
    /\ messages = <<>>
    /\ input = ""
    /\ isSending = FALSE
    /\ validateReq = [st |-> "sent", kind |-> "none", status |-> "none",
                      history |-> <<>>]
    /\ sendReq = NoRequest
    /\ pageToast = "none"

PageNext ==
    \/ ServerValidate
    \/ ValidateReply
    \/ \E text \in Texts : TypeInput(text)
    \/ handleSendMessage
    \/ ServerChat
    \/ SendReply

(***************************************************************************)
(* Chatbot: the investor chat and its localStorage cache.                  *)
(***************************************************************************)
Greeting == [role |-> "model", content |-> "Hello!"]

Fallback == [role |-> "model",
             content |-> "Sorry, I encountered an error. Please try again."]

Answer == [role |-> "model", content |-> "answer"]

ChatUserMessage(text) == [role |-> "user", content |-> text]

\* the deals whose dashboards the browser has shown
ChatDeals == {"a", "b"}

\* a handleSendMessage call: the list and the storage key of its closure,
\* and whether the instance it belongs to is still mounted
NoChatRequest ==
    [st |-> "idle", res |-> "none", newMessages |-> <<>>, deal |-> "",
     live |-> FALSE, cleared |-> FALSE]

\* localStorage.getItem returns null
NoEntry == <<"null">>

\* an entry that is the empty string
EmptyEntry == <<"text", "">>

\* an entry that JSON.parse rejects
Garbage == <<"text", "{">>

\* JSON.stringify(messages)
Stringify(list) == <<"json", list>>

\* JSON.parse(savedMessages) returns
Parsable(entry) == entry[1] = "json"

\* JSON.parse(savedMessages)
Parse(entry) == entry[2]

\* `chat_history_${dealId}`
storageKey(dealId) == dealId

\* localStorage.setItem(storageKey, JSON.stringify(list))
SetItem(store, dealId, list) ==
    [store EXCEPT ![storageKey(dealId)] = Stringify(list)]

\* localStorage.removeItem(storageKey)
RemoveItem(store, dealId) == [store EXCEPT ![storageKey(dealId)] = NoEntry]

\* faulty variant: an entry that cannot be used leaves the list empty
LoadedNoFallback(entry) ==
    IF Parsable(entry) THEN Parse(entry) ELSE <<>>

\* the load effect: the saved list, or initializeChat when getItem returns
\* a falsy value or JSON.parse throws
Loaded(entry) ==
    IF entry \in {NoEntry, EmptyEntry} THEN <<Greeting>>
    ELSE IF Parsable(entry) THEN Parse(entry)
    ELSE <<Greeting>>

\* the save effect: if (messages.length > 0) localStorage.setItem(...)
SaveEffect(store, dealId, list) ==
    IF Len(list) > 0 THEN SetItem(store, dealId, list) ELSE store

\* the state of an instance that React has discarded
Discarded(request) ==
    IF request.st = "idle" THEN request ELSE [request EXCEPT !.live = FALSE]

\* the request of an instance that handleClearChat replaced: its instance is
\* discarded, and the record notes that the entry of its deal was removed
\* while it was in flight
ClearedUnder(request, dealId) ==
    IF request.st = "idle" THEN request
    ELSE [request EXCEPT !.live = FALSE,
                         !.cleared = @ \/ request.deal = dealId]

\* faulty variant: the failure path rolls the user message back
ErrorMessagesRolledBack(newMessages) ==
    SubSeq(newMessages, 1, Len(newMessages) - 1)

\* catch: [...newMessages, { role: 'model', content: 'Sorry, ...' }]
ErrorMessages(newMessages) == Append(newMessages, Fallback)

ChatType(text) ==
    /\ chatMounted
    /\ ~chatLoading
    /\ chatInput # text
    /\ chatInput' = text
    /\ UNCHANGED <<chatMessages, chatLoading, chatReq, storage, chatMounted,
                   chatDeal>>
    /\ UNCHANGED nonChatVars

\* Chatbot.handleSendMessage up to the await
ChatSend ==
    /\ chatMounted
    /\ ~chatLoading
    /\ chatReq.st = "idle"
    /\ Trim(chatInput) # ""
    /\ Len(chatMessages) + 2 <= MaxChat
    /\ LET newMessages == Append(chatMessages, ChatUserMessage(chatInput))
       IN  /\ chatMessages' = newMessages
           /\ storage' = SetItem(storage, chatDeal, newMessages)
           /\ chatReq' = [st |-> "sent", res |-> "none",
                          newMessages |-> newMessages, deal |-> chatDeal,
                          live |-> TRUE, cleared |-> FALSE]
    /\ chatInput' = ""
    /\ chatLoading' = TRUE
    /\ UNCHANGED <<chatMounted, chatDeal>>
    /\ UNCHANGED nonChatVars

\* the backend answers POST /api/investor_chat
ServerInvestorChat ==
    /\ chatReq.st = "sent"
    /\ \E res \in Outcomes :
         chatReq' = [chatReq EXCEPT !.st = "resp", !.res = res]
    /\ UNCHANGED <<chatMessages, chatInput, chatLoading, storage, chatMounted,
                   chatDeal>>
    /\ UNCHANGED nonChatVars

\* Chatbot.handleSendMessage after the await
ChatReply ==
    /\ chatReq.st = "resp"
    /\ LET updated == IF chatReq.res = "ok"
                      THEN Append(chatReq.newMessages, Answer)
                      ELSE ErrorMessages(chatReq.newMessages)
       IN  /\ storage' = SetItem(storage, chatReq.deal, updated)
           \* the setters of a discarded instance have no effect
           /\ IF chatReq.live
              THEN /\ chatMessages' = updated
                   /\ chatLoading' = FALSE
              ELSE UNCHANGED <<chatMessages, chatLoading>>
    /\ chatReq' = NoChatRequest
    /\ UNCHANGED <<chatInput, chatMounted, chatDeal>>
    /\ UNCHANGED nonChatVars

\* FloatingChat shows the chat window of the dashboard of a deal: a Chatbot
\* instance mounts with an empty list, the load effect reads the entry of
\* the deal, and the save effect runs on the list it set
MountChat(dealId) ==
    /\ ~chatMounted
    /\ chatMounted' = TRUE
    /\ chatDeal' = dealId
    /\ LET list == Loaded(storage[storageKey(dealId)])
       IN  /\ chatMessages' = list
           /\ storage' = SaveEffect(storage, dealId, list)
    /\ chatInput' = ""
    /\ chatLoading' = FALSE
    /\ chatReq' = Discarded(chatReq)
    /\ UNCHANGED nonChatVars

\* the chat window is minimised or closed, or the dashboard is left
UnmountChat ==
    /\ chatMounted
    /\ chatMounted' = FALSE
    /\ chatMessages' = <<>>
    /\ chatInput' = ""
    /\ chatLoading' = FALSE
    /\ chatReq' = Discarded(chatReq)
    /\ UNCHANGED <<storage, chatDeal>>
    /\ UNCHANGED nonChatVars

\* FloatingChat.handleClearChat: removeItem, then a new key for Chatbot, whose
\* new instance mounts on the removed entry
handleClearChat ==
    /\ chatMounted
    /\ LET removed == RemoveItem(storage, chatDeal)
           list == Loaded(removed[storageKey(chatDeal)])
       IN  /\ chatMessages' = list
           /\ storage' = SaveEffect(removed, chatDeal, list)
    /\ chatInput' = ""
    /\ chatLoading' = FALSE
    /\ chatReq' = ClearedUnder(chatReq, chatDeal)
    /\ UNCHANGED <<chatMounted, chatDeal>>
    /\ UNCHANGED nonChatVars

\* the widget mounted on a deal without saved history: initializeChat, then
\* the save effect
ChatInit ==
    /\ chatMessages = <<Greeting>>
    /\ storage = [k \in ChatDeals |->
                     IF k = storageKey("a") THEN Stringify(<<Greeting>>)
                     ELSE NoEntry]
    /\ chatMounted = TRUE
    /\ chatDeal = "a"
    /\ chatInput = ""
    /\ chatLoading = FALSE
    /\ chatReq = NoChatRequest

ChatNext ==
    \/ \E text \in Texts : ChatType(text)
    \/ ChatSend
    \/ ServerInvestorChat
    \/ ChatReply

\* a history that an earlier visit saved
SavedHistory == <<Greeting, ChatUserMessage("a"), Answer>>

\* what localStorage may hold under the key of a deal when the page loads
SavedEntries ==
    {NoEntry, EmptyEntry, Garbage, Stringify(<<>>), Stringify(SavedHistory)}

\* the dashboard before the chat window is opened
StorageInit ==
    /\ chatMessages = <<>>
    /\ storage \in [ChatDeals -> SavedEntries]
    /\ chatMounted = FALSE
    /\ chatDeal = "a"
    /\ chatInput = ""
    /\ chatLoading = FALSE
    /\ chatReq = NoChatRequest

\* what the investor types in this specification
StorageTexts == {"a", " "}

StorageNext ==
    \/ \E text \in StorageTexts : ChatType(text)
    \/ ChatSend
    \/ ServerInvestorChat
    \/ ChatReply
    \/ \E dealId \in ChatDeals : MountChat(dealId)
    \/ UnmountChat
    \/ handleClearChat

(***************************************************************************)
(* The tab strip.  Both dashboard files render a TabsList from the record  *)
(* they hold; a TabsTrigger is on display when its guard is true.  The     *)
(* record is reduced to the fields the guards and the tab contents read.   *)
(***************************************************************************)
\* analysis-dashboard.tsx and its credit variant
Variants == {"standard", "credit"}

\* metadata.processing_mode, an optional field
Modes == {"fast", "research", "undefined"}

\* an optional list or object: missing, empty, or with entries
Fill == {"undefined", "empty", "nonempty"}

\* no interview object on the record
NoInterview == [status |-> "undefined", issues |-> "undefined"]

\* analysisData.interview
Interviews ==
    {NoInterview} \cup [status : {"pending", "active", "completed"}, issues : Fill]

\* the fields of the deal record read by the tab strip
TabRecord ==
    [mode : Modes, risk : BOOLEAN, dec : BOOLEAN, fact : BOOLEAN,
     interview : Interviews, insights : Fill]

\* faulty variant: the issues tab does not look at the interview status
showIssuesTabAnyStatus(d) == d.interview.issues = "nonempty"

showIssuesTab(d) ==
    d.interview.status # "completed" /\ d.interview.issues = "nonempty"

showInsightsTab(d) ==
    d.interview.status = "completed" /\ d.insights = "nonempty"

\* faulty variant: the research tabs are shown when their data is present
ResearchTabsByPayload(variant, d) ==
    (IF d.risk THEN {"risks"} ELSE {})
    \cup (IF d.dec /\ variant = "standard" THEN {"decision"} ELSE {})
    \cup (IF d.fact THEN {"fact-check"} ELSE {})

\* the triggers guarded by processing_mode !== 'fast'
ResearchTabs(variant, d) ==
    IF d.mode # "fast"
    THEN {"risks", "fact-check"}
         \cup (IF variant = "standard" THEN {"decision"} ELSE {})
    ELSE {}

\* the triggers rendered unconditionally
FixedTabs(variant) ==
    {"overview", "market", "financials"}
    \cup (IF variant = "standard" THEN {"model"} ELSE {})

\* the TabsList of a dashboard holding record d
TabsList(variant, d) ==
    FixedTabs(variant)
    \cup ResearchTabs(variant, d)
    \cup (IF showIssuesTab(d) THEN {"issues"} ELSE {})
    \cup (IF showInsightsTab(d) THEN {"insights"} ELSE {})

\* the records the backend may hold one update after record d: one of the
\* fields read by the tab strip has changed
Updates(d) ==
    {e \in TabRecord :
        Cardinality({f \in DOMAIN d : d[f] # e[f]}) = 1}

\* setAnalysisData(d) with a refetched record, and the render it causes
SetTabData(d) ==
    /\ d \in Updates(tabData)
    /\ tabData' = d
    /\ tabList' = TabsList(tabVariant, d)
    /\ UNCHANGED <<tabVariant, nonTabVars>>

\* the first render of either dashboard with the record it was given
TabsInit ==
    /\ tabVariant \in Variants
    /\ tabData \in TabRecord
    /\ tabList = TabsList(tabVariant, tabData)

\* a rendered dashboard, for the specifications of the other components
TabsIdle ==
    /\ tabVariant = "standard"
    /\ tabData = [mode |-> "research", risk |-> TRUE, dec |-> TRUE,
                  fact |-> FALSE, interview |-> NoInterview,
                  insights |-> "undefined"]
    /\ tabList = TabsList(tabVariant, tabData)

TabsNext == \E d \in TabRecord : SetTabData(d)

(***************************************************************************)
(* FileUpload and the two components that host it.  UploadPage passes      *)
(* handleGenerate as onGenerate; the list page renders FileUpload in a     *)
(* dialog and passes handleUploadComplete.                                 *)
(***************************************************************************)
\* the deal 'sia' of the mock data, as an identifier
Sia == 0

\* the identifiers an upload response may carry
UploadIds == {Sia, MaxDeals + 1}

NoId == -1

\* a File object chosen in a file input, or null
Files == {"null", "f1"}

\* the contents of the text area
UpTexts == {"", " ", "a"}

UpTabs == {"pdf", "video", "audio", "text"}

\* the replies of POST /api/upload: 2xx with a body, 2xx with a body that
\* does not parse, non-2xx with a detail, without one, with a body that does
\* not parse, and a failed exchange with or without an error message
UploadKinds == {"ok", "okbadjson", "detail", "nodetail", "badjson", "throw",
                "throwblank"}

\* the detail text of the server's error body
ServerDetail == "Unsupported file type"

NoUpload == [st |-> "idle", kind |-> "none", id |-> NoId,
             body |-> [file |-> "null", cma_report |-> "null",
                       text_input |-> ""],
             mode |-> "none"]

NoFetch == [st |-> "idle", res |-> "none", deals |-> {}]

Route(page, id) == [page |-> page, id |-> id]

\* useState initial value of processingMode
InitialMode(variant) == IF variant = "cma" THEN "research" ELSE "fast"

\* faulty variant: the check looks at the pitch deck only
hasInputDeckOnly(variant, tab, deck, cma, video, audio, text) ==
    tab = "pdf" /\ deck # "null"

\* let hasInput of handleUploadClick
hasInput(variant, tab, deck, cma, video, audio, text) ==
    IF variant = "cma"
    THEN tab = "pdf" /\ deck # "null" /\ cma # "null"
    ELSE \/ tab = "pdf" /\ deck # "null"
         \/ tab = "video" /\ video # "null"
         \/ tab = "audio" /\ audio # "null"
         \/ tab = "text" /\ Trim(text) # ""

\* the message of setError when hasInput is false
MissingInputMessage(variant, tab) ==
    IF variant = "cma"
    THEN "Please provide both a Pitch Deck and CMA Report."
    ELSE IF tab = "text"
         THEN "Please provide a text input to upload."
         ELSE "Please provide a file to upload."

\* the FormData of the request
FormData(variant, tab, deck, cma, video, audio, text) ==
    IF variant = "cma"
    THEN [file |-> deck, cma_report |-> cma, text_input |-> ""]
    ELSE [file |-> CASE tab = "pdf" -> deck
                     [] tab = "video" -> video
                     [] tab = "audio" -> audio
                     [] OTHER -> "null",
          cma_report |-> "null",
          text_input |-> IF tab = "text" THEN text ELSE ""]

\* the message of the Error the try block ends with, by reply
ThrownMessage(kind) ==
    CASE kind = "detail" -> ServerDetail
      [] kind = "nodetail" -> "File upload failed"
      [] kind = "badjson" -> "An unknown error occurred"
      [] kind = "okbadjson" -> "Unexpected token < in JSON"
      [] kind = "throw" -> "Failed to fetch"
      [] OTHER -> ""

\* faulty variant: every failure shows one fixed text
errorMessageFixed(kind) == "An unexpected error occurred during upload."

\* const errorMessage of the catch block
errorMessage(kind) ==
    IF ThrownMessage(kind) # ""
    THEN ThrownMessage(kind)
    ELSE "An unexpected error occurred during upload."

\* a state setter of FileUpload: without effect once it is unmounted
SetUp(value, current) == IF upMounted THEN value ELSE current

\* the form with nothing chosen, as useState creates it
FreshForm(variant) ==
    /\ activeTab' = "pdf"
    /\ pitchDeck' = "null"
    /\ cmaFile' = "null"
    /\ videoFile' = "null"
    /\ audioFile' = "null"
    /\ textInput' = ""
    /\ processingMode' = InitialMode(variant)

UpFrame == UNCHANGED <<upHost, upVariant, upMounted, upLoading, upError,
                       upReq, upToast, generated, route, isUploadDialogOpen,
                       listLoading, listError, fetchReq, startups,
                       serverDeals, nonUpVars>>

handlePitchDeckChange(f) ==
    /\ upMounted /\ activeTab = "pdf" /\ f # "null"
    /\ pitchDeck' = f
    /\ IF upVariant = "cma"
       THEN UNCHANGED <<videoFile, audioFile, textInput>>
       ELSE videoFile' = "null" /\ audioFile' = "null" /\ textInput' = ""
    /\ UNCHANGED <<activeTab, cmaFile, processingMode>>
    /\ UpFrame

handleCmaChange(f) ==
    /\ upMounted /\ upVariant = "cma" /\ f # "null"
    /\ cmaFile' = f
    /\ UNCHANGED <<activeTab, pitchDeck, videoFile, audioFile, textInput,
                   processingMode>>
    /\ UpFrame

handleVideoChange(f) ==
    /\ upMounted /\ upVariant = "multi" /\ activeTab = "video" /\ f # "null"
    /\ videoFile' = f
    /\ pitchDeck' = "null" /\ audioFile' = "null" /\ textInput' = ""
    /\ UNCHANGED <<activeTab, cmaFile, processingMode>>
    /\ UpFrame

handleAudioChange(f) ==
    /\ upMounted /\ upVariant = "multi" /\ activeTab = "audio" /\ f # "null"
    /\ audioFile' = f
    /\ pitchDeck' = "null" /\ videoFile' = "null" /\ textInput' = ""
    /\ UNCHANGED <<activeTab, cmaFile, processingMode>>
    /\ UpFrame

\* onChange of the text area
setTextInput(text) ==
    /\ upMounted /\ upVariant = "multi" /\ activeTab = "text"
    /\ text # textInput
    /\ textInput' = text
    /\ UNCHANGED <<activeTab, pitchDeck, cmaFile, videoFile, audioFile,
                   processingMode>>
    /\ UpFrame

\* the two mode cards of the multi-input variant
setProcessingMode(m) ==
    /\ upMounted /\ upVariant = "multi" /\ m # processingMode
    /\ processingMode' = m
    /\ UNCHANGED <<activeTab, pitchDeck, cmaFile, videoFile, audioFile,
                   textInput>>
    /\ UpFrame

\* onValueChange of the input tabs; the CMA variant has one tab only
handleTabChange(value) ==
    /\ upMounted /\ upVariant = "multi" /\ value # activeTab
    /\ activeTab' = value
    /\ pitchDeck' = "null" /\ videoFile' = "null" /\ audioFile' = "null"
    /\ textInput' = ""
    /\ upError' = "null"
    /\ UNCHANGED <<cmaFile, processingMode>>
    /\ UNCHANGED <<upHost, upVariant, upMounted, upLoading, upReq, upToast,
                   generated, route, isUploadDialogOpen, listLoading,
                   listError, fetchReq, startups, serverDeals, nonUpVars>>

\* the Start Analysis button (disabled={isLoading}), up to the await
handleUploadClick ==
    /\ upMounted /\ ~upLoading
    /\ IF hasInput(upVariant, activeTab, pitchDeck, cmaFile, videoFile,
                   audioFile, textInput)
       THEN /\ upError' = "null"
            /\ upLoading' = TRUE
            /\ upReq' = [st |-> "sent", kind |-> "none", id |-> NoId,
                         body |-> FormData(upVariant, activeTab, pitchDeck,
                                           cmaFile, videoFile, audioFile,
                                           textInput),
                         mode |-> processingMode]
       ELSE /\ upError' = MissingInputMessage(upVariant, activeTab)
            /\ UNCHANGED <<upLoading, upReq>>
    /\ generated' = FALSE
    /\ UNCHANGED <<upHost, upVariant, upMounted, formVars, upToast, route,
                   isUploadDialogOpen, listLoading, listError, fetchReq,
                   startups, serverDeals, nonUpVars>>

\* the backend answers POST /api/upload
ServerUpload ==
    /\ upReq.st = "sent"
    /\ \E kind \in UploadKinds, id \in UploadIds :
          /\ (kind # "ok" => id = Sia)
          /\ upReq' = [upReq EXCEPT !.st = "resp", !.kind = kind,
                         !.id = IF kind = "ok" THEN id ELSE NoId]
          /\ serverDeals' = IF kind \in {"ok", "okbadjson"}
                            THEN serverDeals \cup {id}
                            ELSE serverDeals
    /\ UNCHANGED <<upHost, upVariant, upMounted, formVars, upLoading, upError,
                   upToast, generated, route, isUploadDialogOpen, listLoading,
                   listError, fetchReq, startups, nonUpVars>>

\* onGenerate of UploadPage: router.push('/startup/sia')
handleGenerate(id) == Route("startup", Sia)

\* handleUploadClick after the await, with the onGenerate of its host
UploadReply ==
    /\ upReq.st = "resp"
    /\ upReq' = NoUpload
    /\ IF upReq.kind = "ok"
       THEN /\ upToast' = "Analysis Started"
            /\ generated' = TRUE
            /\ UNCHANGED upError
            /\ IF upHost = "page"
               THEN /\ route' = handleGenerate(upReq.id)
                    /\ UNCHANGED <<isUploadDialogOpen, listLoading, listError,
                                   fetchReq>>
               ELSE \* handleUploadComplete: close the dialog, fetchDeals()
                    /\ isUploadDialogOpen' = FALSE
                    /\ listLoading' = TRUE
                    /\ listError' = "null"
                    /\ fetchReq' = [st |-> "sent", res |-> "none",
                                    deals |-> {}]
                    /\ UNCHANGED route
            /\ upMounted' = FALSE
            /\ upLoading' = FALSE
            /\ FreshForm(upVariant)
       ELSE /\ upToast' = "Upload Failed"
            /\ upError' = SetUp(errorMessage(upReq.kind), upError)
            /\ upLoading' = FALSE
            /\ UNCHANGED <<generated, route, isUploadDialogOpen, listLoading,
                           listError, fetchReq, upMounted, formVars>>
    /\ UNCHANGED <<upHost, upVariant, startups, serverDeals, nonUpVars>>

\* DialogTrigger of the list page: a new FileUpload is mounted; one upload
\* and one fetchDeals call are followed at a time
OpenUploadDialog ==
    /\ upHost = "dialog" /\ ~isUploadDialogOpen
    /\ upReq.st = "idle" /\ fetchReq.st = "idle"
    /\ isUploadDialogOpen' = TRUE
    /\ upMounted' = TRUE
    /\ upLoading' = FALSE
    /\ upError' = "null"
    /\ generated' = FALSE
    /\ FreshForm(upVariant)
    /\ UNCHANGED <<upHost, upVariant, upReq, upToast, route, listLoading,
                   listError, fetchReq, startups, serverDeals, nonUpVars>>

\* onOpenChange(false): the dialog content and its FileUpload are unmounted;
\* a request in flight is not cancelled
CloseUploadDialog ==
    /\ upHost = "dialog" /\ isUploadDialogOpen
    /\ isUploadDialogOpen' = FALSE
    /\ upMounted' = FALSE
    /\ upLoading' = FALSE
    /\ upError' = "null"
    /\ FreshForm(upVariant)
    /\ UNCHANGED <<upHost, upVariant, upReq, upToast, generated, route,
                   listLoading, listError, fetchReq, startups, serverDeals,
                   nonUpVars>>

\* the backend answers GET /api/deals
ServerListDeals ==
    /\ fetchReq.st = "sent"
    /\ \E res \in Outcomes :
          fetchReq' = [st |-> "resp", res |-> res,
                       deals |-> IF res = "ok" THEN serverDeals ELSE {}]
    /\ UNCHANGED <<upHost, upVariant, upMounted, formVars, upLoading, upError,
                   upReq, upToast, generated, route, isUploadDialogOpen,
                   listLoading, listError, startups, serverDeals, nonUpVars>>

\* fetchDeals after the await
FetchReply ==
    /\ fetchReq.st = "resp"
    /\ fetchReq' = NoFetch
    /\ IF fetchReq.res = "ok"
       THEN startups' = fetchReq.deals /\ UNCHANGED listError
       ELSE /\ listError' = IF fetchReq.res = "non2xx"
                            THEN "Failed to fetch deals. Please try again later."
                            ELSE "Failed to fetch"
            /\ UNCHANGED startups
    /\ listLoading' = FALSE
    /\ UNCHANGED <<upHost, upVariant, upMounted, formVars, upLoading, upError,
                   upReq, upToast, generated, route, isUploadDialogOpen,
                   serverDeals, nonUpVars>>

\* FileUpload as its host first shows it
UpInit ==
    /\ upHost \in {"page", "dialog"}
    /\ upVariant \in {"cma", "multi"}
    /\ upMounted = (upHost = "page")
    /\ isUploadDialogOpen = FALSE
    /\ route = IF upHost = "page" THEN Route("upload", NoId)
                                  ELSE Route("list", NoId)
    /\ activeTab = "pdf"
    /\ pitchDeck = "null"
    /\ cmaFile = "null"
    /\ videoFile = "null"
    /\ audioFile = "null"
    /\ textInput = ""
    /\ processingMode = InitialMode(upVariant)
    /\ upLoading = FALSE
    /\ upError = "null"
    /\ upReq = NoUpload
    /\ upToast = "none"
    /\ generated = FALSE
    /\ listLoading = FALSE
    /\ listError = "null"
    /\ fetchReq = NoFetch

\* the list page with its upload dialog closed
UpIdle == UpInit /\ upHost = "dialog" /\ upVariant = "cma"

UpNext ==
    \/ \E f \in Files : handlePitchDeckChange(f)
    \/ \E f \in Files : handleCmaChange(f)
    \/ \E f \in Files : handleVideoChange(f)
    \/ \E f \in Files : handleAudioChange(f)
    \/ \E text \in UpTexts : setTextInput(text)
    \/ \E m \in {"fast", "research"} : setProcessingMode(m)
    \/ \E value \in UpTabs : handleTabChange(value)
    \/ handleUploadClick
    \/ ServerUpload
    \/ UploadReply
    \/ OpenUploadDialog
    \/ CloseUploadDialog
    \/ ServerListDeals
    \/ FetchReply

(***************************************************************************)
(* IssuesTab: the selection of issues, the meeting dialog, the reset of    *)
(* the interview and the generation of questions.  The dashboard owns a    *)
(* meeting dialog of its own, with the same button and a request without   *)
(* selected_fields.  The props of IssuesTab are whatever its parent last   *)
(* fetched.                                                                *)
(***************************************************************************)
\* the issue.field values of the questions
Fields == {"f1", "f2"}

\* prop issues, as the list of issue.field; two issues may share a field
IssueLists == UNION {[1..n -> Fields] : n \in 0..MaxIssues}

\* status of the interview sub-record; "none" when there is no interview
Statuses == {"none", "pending", "active", "completed", "expired"}

\* what the name and e-mail inputs may hold
Names == {"", "n"}

Emails == {"", "e"}

\* new Set(issues.map(issue => issue.field))
allFields(list) == {list[i] : i \in 1..Len(list)}

\* newSelected of handleToggleIssue
Toggled(selected, field) ==
    IF field \in selected THEN selected \ {field} ELSE selected \cup {field}

\* the selection handleToggleAll sets
ToggledAll(selected, list) ==
    IF Cardinality(selected) = Len(list) THEN {} ELSE allFields(list)

allSelected == Cardinality(selectedFields) = Len(issues)

isInterviewActive == interviewStatus \in {"active", "pending"}

\* the replies of the interview endpoints: 2xx, 2xx with success false, 2xx
\* with a body that does not parse, non-2xx, and a failed exchange
MeetKinds == {"ok", "okfalse", "okbadjson", "non2xx", "throw"}

ResetKinds == {"ok", "okbadjson", "non2xx", "throw"}

NoFields == {}

NoMeeting == [st |-> "idle", kind |-> "none", name |-> "", email |-> "",
              selected_fields |-> NoFields, withFields |-> FALSE]

NoCall == [st |-> "idle", kind |-> "none"]

\* faulty variant: the button ignores the two inputs
SendInvitationDisabledBusyOnly == isSettingMeeting

\* disabled of the Send Invitation button
SendInvitationDisabled ==
    isSettingMeeting \/ founderName = "" \/ founderEmail = ""

\* faulty variant: the reset button is rendered in every status
ResetShownAlways == TRUE

\* the Reset Interview button is rendered
ResetShown == isInterviewActive

ItFrame == UNCHANGED <<meetHost, issues, interviewStatus, srvInterview,
                       isSettingMeeting, isResetting, isGenerating, meetReq,
                       resetReq, genReq, itToast, refreshed, nonItVars>>

\* the list of issues is rendered by IssuesTab
ListShown == meetHost = "tab" /\ Len(issues) > 0

\* a click on an issue row or its checkbox (not under the modal dialog)
handleToggleIssue(field) ==
    /\ ListShown /\ ~isMeetingDialogOpen
    /\ field \in allFields(issues)
    /\ selectedFields' = Toggled(selectedFields, field)
    /\ UNCHANGED <<isMeetingDialogOpen, founderName, founderEmail>>
    /\ ItFrame

handleToggleAll ==
    /\ ListShown /\ ~isMeetingDialogOpen
    /\ selectedFields' = ToggledAll(selectedFields, issues)
    /\ UNCHANGED <<isMeetingDialogOpen, founderName, founderEmail>>
    /\ ItFrame

\* the Set Meeting button: disabled={selectedFields.size === 0} in IssuesTab,
\* a plain DialogTrigger in the dashboard
OpenMeetingDialog ==
    /\ ~isMeetingDialogOpen
    /\ meetHost = "tab" => (ListShown /\ selectedFields # {})
    /\ isMeetingDialogOpen' = TRUE
    /\ UNCHANGED <<selectedFields, founderName, founderEmail>>
    /\ ItFrame

\* the dialog is rendered and open
DialogShown ==
    isMeetingDialogOpen /\ (meetHost = "tab" => Len(issues) > 0)

\* onOpenChange(false)
CloseMeetingDialog ==
    /\ DialogShown
    /\ isMeetingDialogOpen' = FALSE
    /\ UNCHANGED <<selectedFields, founderName, founderEmail>>
    /\ ItFrame

setFounderName(text) ==
    /\ DialogShown /\ text # founderName
    /\ founderName' = text
    /\ UNCHANGED <<selectedFields, isMeetingDialogOpen, founderEmail>>
    /\ ItFrame

setFounderEmail(text) ==
    /\ DialogShown /\ text # founderEmail
    /\ founderEmail' = text
    /\ UNCHANGED <<selectedFields, isMeetingDialogOpen, founderName>>
    /\ ItFrame

\* faulty variant: the request lists every issue of the tab
SentAllFields(selected, list) == allFields(list)

\* selected_fields: Array.from(selectedFields)
SentFields(selected, list) == selected

\* the Send Invitation button, up to the await
handleSetMeeting ==
    /\ DialogShown /\ ~SendInvitationDisabled
    /\ IF meetHost = "tab" /\ selectedFields = {}
       THEN /\ itToast' = "No Questions Selected"
            /\ UNCHANGED <<isSettingMeeting, meetReq>>
       ELSE /\ isSettingMeeting' = TRUE
            /\ meetReq' = [st |-> "sent", kind |-> "none",
                           name |-> founderName, email |-> founderEmail,
                           selected_fields |->
                               IF meetHost = "tab"
                               THEN SentFields(selectedFields, issues)
                               ELSE NoFields,
                           withFields |-> meetHost = "tab"]
            /\ UNCHANGED itToast
    /\ UNCHANGED <<meetHost, issues, interviewStatus, srvInterview,
                   selectedFields, isMeetingDialogOpen, founderName,
                   founderEmail, isResetting, isGenerating, resetReq, genReq,
                   refreshed, nonItVars>>

\* the backend answers POST /api/interviews/initiate; an accepted invitation
\* leaves the interview pending
ServerInitiate ==
    /\ meetReq.st = "sent"
    /\ \E kind \in MeetKinds :
          /\ meetReq' = [meetReq EXCEPT !.st = "resp", !.kind = kind]
          /\ srvInterview' = IF kind \in {"ok", "okbadjson"}
                             THEN "pending" ELSE srvInterview
    /\ UNCHANGED <<meetHost, issues, interviewStatus, selectedFields,
                   isMeetingDialogOpen, founderName, founderEmail,
                   isSettingMeeting, isResetting, isGenerating, resetReq,
                   genReq, itToast, refreshed, nonItVars>>

\* handleSetMeeting after the await
SetMeetingReply ==
    /\ meetReq.st = "resp"
    /\ meetReq' = NoMeeting
    /\ IF meetReq.kind = "ok"
       THEN /\ itToast' = "Invitation Sent"
            /\ isMeetingDialogOpen' = FALSE
            /\ founderEmail' = ""
       ELSE /\ itToast' = "Failed to Set Meeting"
            /\ UNCHANGED <<isMeetingDialogOpen, founderEmail>>
    /\ isSettingMeeting' = FALSE
    /\ UNCHANGED <<meetHost, issues, interviewStatus, srvInterview,
                   selectedFields, founderName, isResetting, isGenerating,
                   resetReq, genReq, refreshed, nonItVars>>

\* the Reset Interview button (disabled={isResetting}), up to the await
handleResetInterview ==
    /\ ListShown /\ ~isMeetingDialogOpen
    /\ ResetShown /\ ~isResetting
    /\ isResetting' = TRUE
    /\ resetReq' = [st |-> "sent", kind |-> "none"]
    /\ refreshed' = FALSE
    /\ UNCHANGED <<meetHost, issues, interviewStatus, srvInterview,
                   selectedFields, isMeetingDialogOpen, founderName,
                   founderEmail, isSettingMeeting, isGenerating, meetReq,
                   genReq, itToast, nonItVars>>

\* the backend answers DELETE /api/interviews/reset/{id}; an accepted reset
\* removes the interview
ServerReset ==
    /\ resetReq.st = "sent"
    /\ \E kind \in ResetKinds :
          /\ resetReq' = [st |-> "resp", kind |-> kind]
          /\ srvInterview' = IF kind \in {"ok", "okbadjson"}
                             THEN "none" ELSE srvInterview
    /\ UNCHANGED <<meetHost, issues, interviewStatus, selectedFields,
                   isMeetingDialogOpen, founderName, founderEmail,
                   isSettingMeeting, isResetting, isGenerating, meetReq,
                   genReq, itToast, refreshed, nonItVars>>

\* handleResetInterview reaches onInterviewReset?.()
ResetRefreshes(kind) == kind = "ok"

\* handleResetInterview after the await
ResetReply ==
    /\ resetReq.st = "resp"
    /\ resetReq' = NoCall
    /\ itToast' = IF resetReq.kind = "ok" THEN "Interview Reset"
                                          ELSE "Failed to Reset"
    /\ refreshed' = ResetRefreshes(resetReq.kind)
    /\ isResetting' = FALSE
    /\ UNCHANGED <<meetHost, issues, interviewStatus, srvInterview,
                   selectedFields, isMeetingDialogOpen, founderName,
                   founderEmail, isSettingMeeting, isGenerating, meetReq,
                   genReq, nonItVars>>

\* the Generate Interview Questions button of the empty tab
handleGenerateQuestions ==
    /\ meetHost = "tab" /\ Len(issues) = 0
    /\ ~isGenerating
    /\ isGenerating' = TRUE
    /\ genReq' = [st |-> "sent", kind |-> "none"]
    /\ refreshed' = FALSE
    /\ UNCHANGED <<meetHost, issues, interviewStatus, srvInterview,
                   selectedFields, isMeetingDialogOpen, founderName,
                   founderEmail, isSettingMeeting, isResetting, meetReq,
                   resetReq, itToast, nonItVars>>

\* the backend answers POST /api/interviews/generate/{id}
ServerGenerate ==
    /\ genReq.st = "sent"
    /\ \E kind \in ResetKinds : genReq' = [st |-> "resp", kind |-> kind]
    /\ UNCHANGED <<meetHost, issues, interviewStatus, srvInterview,
                   selectedFields, isMeetingDialogOpen, founderName,
                   founderEmail, isSettingMeeting, isResetting, isGenerating,
                   meetReq, resetReq, itToast, refreshed, nonItVars>>

\* handleGenerateQuestions after the await
GenerateReply ==
    /\ genReq.st = "resp"
    /\ genReq' = NoCall
    /\ itToast' = IF genReq.kind = "ok" THEN "Questions Generated"
                                        ELSE "Failed to Generate Questions"
    /\ refreshed' = (genReq.kind = "ok")
    /\ isGenerating' = FALSE
    /\ UNCHANGED <<meetHost, issues, interviewStatus, srvInterview,
                   selectedFields, isMeetingDialogOpen, founderName,
                   founderEmail, isSettingMeeting, isResetting, meetReq,
                   resetReq, nonItVars>>

\* the interview moves on without the investor: the founder opens the chat,
\* finishes it, or the invitation times out
FounderStep ==
    /\ \/ srvInterview = "pending" /\ srvInterview' \in {"active", "expired"}
       \/ srvInterview = "active" /\ srvInterview' \in {"completed", "expired"}
    /\ UNCHANGED <<meetHost, issues, interviewStatus, selectedFields,
                   isMeetingDialogOpen, founderName, founderEmail,
                   isSettingMeeting, isResetting, isGenerating, meetReq,
                   resetReq, genReq, itToast, refreshed, nonItVars>>

\* the parent passes the props of a refetched record; the effect on [issues]
\* selects every field of a non-empty list
RefetchInterview(list) ==
    /\ meetHost = "tab"
    /\ issues' = list
    /\ interviewStatus' = srvInterview
    /\ selectedFields' = IF Len(list) > 0 THEN allFields(list)
                                          ELSE selectedFields
    /\ UNCHANGED <<meetHost, srvInterview, isMeetingDialogOpen, founderName,
                   founderEmail, isSettingMeeting, isResetting, isGenerating,
                   meetReq, resetReq, genReq, itToast, refreshed, nonItVars>>

\* IssuesTab after its first render and effects, or the dashboard's dialog
ItInit ==
    /\ meetHost \in {"tab", "dashboard"}
    /\ issues \in IssueLists
    /\ meetHost = "dashboard" => issues = << >>
    /\ srvInterview \in Statuses
    /\ interviewStatus = srvInterview
    /\ selectedFields = allFields(issues)
    /\ isMeetingDialogOpen = FALSE
    /\ founderName \in Names
    /\ founderEmail = ""
    /\ isSettingMeeting = FALSE
    /\ isResetting = FALSE
    /\ isGenerating = FALSE
    /\ meetReq = NoMeeting
    /\ resetReq = NoCall
    /\ genReq = NoCall
    /\ itToast = "none"
    /\ refreshed = FALSE

\* a dashboard without an interview
ItIdle ==
    /\ ItInit
    /\ meetHost = "dashboard"
    /\ srvInterview = "none"
    /\ founderName = ""

\* the selection of issues and the invitation
ItNext ==
    \/ \E field \in Fields : handleToggleIssue(field)
    \/ handleToggleAll
    \/ OpenMeetingDialog
    \/ CloseMeetingDialog
    \/ \E text \in Names : setFounderName(text)
    \/ \E text \in Emails : setFounderEmail(text)
    \/ handleSetMeeting
    \/ ServerInitiate
    \/ SetMeetingReply
    \/ \E list \in IssueLists : RefetchInterview(list)

\* the lists of at most one issue
ShortLists == {list \in IssueLists : Len(list) <= 1}

\* the life of the interview: invitation, reset, the founder's progress and
\* the refetches that show it
InterviewNext ==
    \/ OpenMeetingDialog
    \/ \E text \in Emails : setFounderEmail(text)
    \/ handleSetMeeting
    \/ ServerInitiate
    \/ SetMeetingReply
    \/ handleResetInterview
    \/ ServerReset
    \/ ResetReply
    \/ FounderStep
    \/ \E list \in ShortLists : RefetchInterview(list)

\* the generation of questions on an empty tab
GenerateNext ==
    \/ handleGenerateQuestions
    \/ ServerGenerate
    \/ GenerateReply
    \/ \E list \in ShortLists : RefetchInterview(list)

(***************************************************************************)
(* The API client (lib/api-client.ts), and the components that call the    *)
(* backend with a plain fetch: AuthModal and the interview page.  A        *)
(* request is the URL, the function that handed it to fetch and its        *)
(* headers, a set of <<name, value>> pairs.                                *)
(***************************************************************************)
\* call sites of authenticatedFetch: a GET without options, a POST with a body
AuthedCalls == {"api/deals", "api/investor_chat"}

\* the calls of AuthModal
SignInCalls ==
    {"api/auth/google-login", "api/auth/send-code", "api/auth/verify-code"}

\* the calls of the founder's interview page
PublicCalls == {"api/interviews/validate", "api/interviews/chat"}

ContentType == <<"Content-Type", "application/json">>

Bearer == <<"Authorization", "Bearer token">>

\* options.headers of the call site
OptionHeaders(url) ==
    IF url \in {"api/deals", "api/interviews/validate"} THEN {}
    ELSE {ContentType}

AuthEmails == {"", "e"}

SixDigits == "123456"

Codes == {"", "12", SixDigits}

TokenResults == {"ok", "throw"}

GoogleKinds == {"ok", "non2xx", "throw"}

VerifyKinds == {"ok", "oknotoken", "signinthrows", "non2xx", "throw"}

NoFetchYet == [url |-> "", via |-> "", headers |-> {}]

NoAuthCall ==
    [url |-> "", headers |-> {}, user |-> FALSE, token |-> "",
     authHeaders |-> {}]

Request(url, via, headers) == [url |-> url, via |-> via, headers |-> headers]

\* headers.set(key, value)
SetHeader(headers, pair) ==
    {h \in headers : h[1] # pair[1]} \cup {pair}

\* new Headers(options.headers) with every entry of authHeaders set
MergedHeaders(headers, authHeaders) ==
    IF authHeaders = {} THEN headers ELSE SetHeader(headers, Bearer)

getAuthHeadersBearerAlways(user, token) == {Bearer}

\* getAuthHeaders: {} without a user or when getIdToken throws
getAuthHeaders(user, token) ==
    IF ~user THEN {}
    ELSE IF token = "ok" THEN {Bearer}
    ELSE {}

\* the requests that were started and are not yet handed to fetch
PendingFetches ==
    (IF afPc # "idle" THEN 1 ELSE 0) + (IF amPc = "popup" THEN 1 ELSE 0)

CanFetch == fetches + PendingFetches < MaxFetches

\* fetch(url, {...options, headers})
Fetch(url, via, headers) ==
    /\ lastFetch' = Request(url, via, headers)
    /\ fetches' = fetches + 1

AmFrame == UNCHANGED <<afPc, afCall, nonAuthVars>>

\* a call site calls authenticatedFetch(url, options)
authenticatedFetch(url) ==
    /\ afPc = "idle"
    /\ CanFetch
    /\ afPc' = "getAuthHeaders"
    /\ afCall' = [NoAuthCall EXCEPT !.url = url,
                                    !.headers = OptionHeaders(url)]
    /\ UNCHANGED <<currentUser, lastFetch, fetches, isAuthOpen, step, email,
                   code, amLoading, amPc, amToast, nonAuthVars>>

\* await getAuthHeaders(): auth.currentUser is read, getIdToken answers
GetAuthHeadersReturns(token) ==
    /\ afPc = "getAuthHeaders"
    /\ afPc' = "fetch"
    /\ afCall' = [afCall EXCEPT
                      !.user = currentUser,
                      !.token = IF currentUser THEN token ELSE "",
                      !.authHeaders = getAuthHeaders(currentUser, token)]
    /\ UNCHANGED <<currentUser, lastFetch, fetches, isAuthOpen, step, email,
                   code, amLoading, amPc, amToast, nonAuthVars>>

\* return fetch(url, {...options, headers})
AuthenticatedFetchSends ==
    /\ afPc = "fetch"
    /\ Fetch(afCall.url, "authenticatedFetch",
             MergedHeaders(afCall.headers, afCall.authHeaders))
    /\ afPc' = "idle"
    /\ afCall' = NoAuthCall
    /\ UNCHANGED <<currentUser, isAuthOpen, step, email, code, amLoading,
                   amPc, amToast, nonAuthVars>>

\* the interview page calls fetch itself
InterviewPageFetch(url) ==
    /\ CanFetch
    /\ Fetch(url, "fetch", OptionHeaders(url))
    /\ UNCHANGED <<currentUser, isAuthOpen, step, email, code, amLoading,
                   amPc, amToast>>
    /\ AmFrame

\* logout of AuthProvider, signOut succeeding
logout ==
    /\ currentUser
    /\ currentUser' = FALSE
    /\ UNCHANGED <<lastFetch, fetches, isAuthOpen, step, email, code,
                   amLoading, amPc, amToast>>
    /\ AmFrame

OpenAuthModal ==
    /\ ~isAuthOpen
    /\ isAuthOpen' = TRUE
    /\ UNCHANGED <<currentUser, lastFetch, fetches, step, email, code,
                   amLoading, amPc, amToast>>
    /\ AmFrame

onClose ==
    /\ isAuthOpen
    /\ isAuthOpen' = FALSE
    /\ UNCHANGED <<currentUser, lastFetch, fetches, step, email, code,
                   amLoading, amPc, amToast>>
    /\ AmFrame

setEmail(e) ==
    /\ isAuthOpen /\ step = "email" /\ ~amLoading
    /\ e # email
    /\ email' = e
    /\ UNCHANGED <<currentUser, lastFetch, fetches, isAuthOpen, step, code,
                   amLoading, amPc, amToast>>
    /\ AmFrame

setCode(c) ==
    /\ isAuthOpen /\ step = "code" /\ ~amLoading
    /\ c # code
    /\ code' = c
    /\ UNCHANGED <<currentUser, lastFetch, fetches, isAuthOpen, step, email,
                   amLoading, amPc, amToast>>
    /\ AmFrame

\* the Change Email button
ChangeEmail ==
    /\ isAuthOpen /\ step = "code" /\ ~amLoading
    /\ step' = "email"
    /\ UNCHANGED <<currentUser, lastFetch, fetches, isAuthOpen, email, code,
                   amLoading, amPc, amToast>>
    /\ AmFrame

\* handleGoogleLogin to the await of signInWithPopup
handleGoogleLogin ==
    /\ isAuthOpen /\ step = "email" /\ ~amLoading
    /\ CanFetch
    /\ amLoading' = TRUE
    /\ amPc' = "popup"
    /\ UNCHANGED <<currentUser, lastFetch, fetches, isAuthOpen, step, email,
                   code, amToast>>
    /\ AmFrame

\* signInWithPopup resolves and the backend is synchronised, or it rejects
PopupReturns(ok) ==
    /\ amPc = "popup"
    /\ IF ok
       THEN /\ currentUser' = TRUE
            /\ Fetch("api/auth/google-login", "fetch", {ContentType})
            /\ amPc' = "google"
            /\ UNCHANGED <<amLoading, amToast>>
       ELSE /\ amToast' = "Login Failed"
            /\ amLoading' = FALSE
            /\ amPc' = "idle"
            /\ UNCHANGED <<currentUser, lastFetch, fetches>>
    /\ UNCHANGED <<isAuthOpen, step, email, code>>
    /\ AmFrame

\* handleGoogleLogin after the await of fetch
GoogleReply(kind) ==
    /\ amPc = "google"
    /\ IF kind = "ok"
       THEN /\ amToast' = "Welcome back!"
            /\ isAuthOpen' = FALSE
       ELSE /\ amToast' = "Login Failed"
            /\ UNCHANGED isAuthOpen
    /\ amLoading' = FALSE
    /\ amPc' = "idle"
    /\ UNCHANGED <<currentUser, lastFetch, fetches, step, email, code>>
    /\ AmFrame

\* handleSendCode to the await of fetch
handleSendCode ==
    /\ isAuthOpen /\ step = "email" /\ ~amLoading
    /\ email # ""
    /\ CanFetch
    /\ amLoading' = TRUE
    /\ Fetch("api/auth/send-code", "fetch", {ContentType})
    /\ amPc' = "send"
    /\ UNCHANGED <<currentUser, isAuthOpen, step, email, code, amToast>>
    /\ AmFrame

\* handleSendCode after the await
SendCodeReply(kind) ==
    /\ amPc = "send"
    /\ IF kind = "ok"
       THEN /\ step' = "code"
            /\ amToast' = "Code Sent"
       ELSE /\ amToast' = "Error"
            /\ UNCHANGED step
    /\ amLoading' = FALSE
    /\ amPc' = "idle"
    /\ UNCHANGED <<currentUser, lastFetch, fetches, isAuthOpen, email, code>>
    /\ AmFrame

\* handleVerifyCode to the await of fetch
handleVerifyCode ==
    /\ isAuthOpen /\ step = "code" /\ ~amLoading
    /\ code = SixDigits
    /\ CanFetch
    /\ amLoading' = TRUE
    /\ Fetch("api/auth/verify-code", "fetch", {ContentType})
    /\ amPc' = "verify"
    /\ UNCHANGED <<currentUser, isAuthOpen, step, email, code, amToast>>
    /\ AmFrame

\* handleVerifyCode after the await, signInWithCustomToken included
VerifyCodeReply(kind) ==
    /\ amPc = "verify"
    /\ IF kind = "ok"
       THEN /\ currentUser' = TRUE
            /\ amToast' = "Success"
            /\ isAuthOpen' = FALSE
       ELSE /\ amToast' = "Verification Failed"
            /\ UNCHANGED <<currentUser, isAuthOpen>>
    /\ amLoading' = FALSE
    /\ amPc' = "idle"
    /\ UNCHANGED <<lastFetch, fetches, step, email, code>>
    /\ AmFrame

AuthInit ==
    /\ currentUser \in BOOLEAN
    /\ afPc = "idle"
    /\ afCall = NoAuthCall
    /\ lastFetch = NoFetchYet
    /\ fetches = 0
    /\ isAuthOpen = FALSE
    /\ step = "email"
    /\ email = ""
    /\ code = ""
    /\ amLoading = FALSE
    /\ amPc = "idle"
    /\ amToast = ""

AuthIdle ==
    /\ currentUser = FALSE
    /\ afPc = "idle"
    /\ afCall = NoAuthCall
    /\ lastFetch = NoFetchYet
    /\ fetches = 0
    /\ isAuthOpen = FALSE
    /\ step = "email"
    /\ email = ""
    /\ code = ""
    /\ amLoading = FALSE
    /\ amPc = "idle"
    /\ amToast = ""

AuthNext ==
    \/ \E url \in AuthedCalls : authenticatedFetch(url)
    \/ \E token \in TokenResults : GetAuthHeadersReturns(token)
    \/ AuthenticatedFetchSends
    \/ \E url \in PublicCalls : InterviewPageFetch(url)
    \/ logout
    \/ OpenAuthModal
    \/ onClose
    \/ \E e \in AuthEmails : setEmail(e)
    \/ \E c \in Codes : setCode(c)
    \/ ChangeEmail
    \/ handleGoogleLogin
    \/ \E ok \in BOOLEAN : PopupReturns(ok)
    \/ \E kind \in GoogleKinds : GoogleReply(kind)
    \/ handleSendCode
    \/ \E kind \in GoogleKinds : SendCodeReply(kind)
    \/ handleVerifyCode
    \/ \E kind \in VerifyKinds : VerifyCodeReply(kind)

(***************************************************************************)
(* The messages of failed requests: what handleRecalculate and             *)
(* FileUpload.handleUploadClick show for each reply.  A reply is one of    *)
(* UploadKinds; the toast is recorded with the reply it answers.           *)
(***************************************************************************)
Handlers == {"recalculate", "upload"}

\* the request each handler awaits the reply of
NoErrCall == [handler \in Handlers |-> "none"]

NoToast == [handler |-> "none", stage |-> "none", kind |-> "none",
            title |-> "", description |-> ""]

\* the message of the Error the try block of handleRecalculate ends with
RecalcThrown(stage, kind) ==
    CASE kind = "throw" -> "Failed to fetch"
      [] kind = "throwblank" -> ""
      [] kind = "okbadjson" -> "Unexpected token < in JSON"
      [] stage = "get" -> "Failed to fetch the updated analysis data."
      [] kind = "detail" -> ServerDetail
      [] kind = "nodetail" -> "Failed to generate the new memo summary."
      [] kind = "badjson" -> "Unexpected token < in JSON"
      [] OTHER -> ""

\* faulty variant: the catch block shows one text for every failure
RecalcDescriptionGeneric(stage, kind) ==
    "An unexpected error occurred while regenerating the summary."

\* description: error.message || "An unexpected error occurred while ..."
RecalcDescription(stage, kind) ==
    IF RecalcThrown(stage, kind) # ""
    THEN RecalcThrown(stage, kind)
    ELSE "An unexpected error occurred while regenerating the summary."

\* the toast of handleRecalculate for a reply
RecalcToast(stage, kind) ==
    [handler |-> "recalculate", stage |-> stage, kind |-> kind,
     title |-> "Update Failed",
     description |-> RecalcDescription(stage, kind)]

\* the toast of handleUploadClick for a reply
UploadToast(kind) ==
    [handler |-> "upload", stage |-> "post", kind |-> kind,
     title |-> IF kind = "ok" THEN "Analysis Started" ELSE "Upload Failed",
     description |->
         IF kind = "ok"
         THEN "Your data has been uploaded and analysis is underway."
         ELSE errorMessage(kind)]

\* one of the two handlers sends its first request
StartCall(handler) ==
    /\ errCall[handler] = "none"
    /\ errCall' = [errCall EXCEPT ![handler] = "post"]
    /\ UNCHANGED errShown
    /\ UNCHANGED nonErrVars

\* handleRecalculate after the await of POST /api/generate_memo/id
RecalcPostSettles(kind) ==
    /\ errCall["recalculate"] = "post"
    /\ IF kind = "ok"
       THEN /\ errCall' = [errCall EXCEPT !["recalculate"] = "get"]
            /\ UNCHANGED errShown
       ELSE /\ errCall' = [errCall EXCEPT !["recalculate"] = "none"]
            /\ errShown' = RecalcToast("post", kind)
    /\ UNCHANGED nonErrVars

\* handleRecalculate after the await of GET /api/deals/id
RecalcGetSettles(kind) ==
    /\ errCall["recalculate"] = "get"
    /\ errCall' = [errCall EXCEPT !["recalculate"] = "none"]
    /\ errShown' =
         IF kind = "ok"
         THEN [handler |-> "recalculate", stage |-> "get", kind |-> kind,
               title |-> "Summary Generated",
               description |-> "The investment summary has been updated with your new weightages."]
         ELSE RecalcToast("get", kind)
    /\ UNCHANGED nonErrVars

\* handleUploadClick after the await of POST /api/upload
UploadSettles(kind) ==
    /\ errCall["upload"] = "post"
    /\ errCall' = [errCall EXCEPT !["upload"] = "none"]
    /\ errShown' = UploadToast(kind)
    /\ UNCHANGED nonErrVars

ErrInit ==
    /\ errCall = NoErrCall
    /\ errShown = NoToast

ErrIdle ==
    /\ errCall = NoErrCall
    /\ errShown = NoToast

ErrNext ==
    \/ \E handler \in Handlers : StartCall(handler)
    \/ \E kind \in UploadKinds : RecalcPostSettles(kind)
    \/ \E kind \in UploadKinds : RecalcGetSettles(kind)
    \/ \E kind \in UploadKinds : UploadSettles(kind)

(***************************************************************************)
(* FactCheck: the report of a deal and runFactCheck.  A report is known by *)
(* its number; data is the empty set (null) or holds one report.           *)
(***************************************************************************)
\* the replies of POST /api/deals/id/fact-check
FcKinds == {"ok", "okbadjson", "detail", "nodetail", "badjson", "throw"}

\* stale counts the requests in flight whose instance has been unmounted
NoFactCheck == [st |-> "idle", kind |-> "none", result |-> {}, stale |-> 0]

\* the report passed as existingData, when there is one
ExistingReport == 0

\* the message of the Error the try block of runFactCheck ends with
FactCheckError(kind) ==
    CASE kind = "detail" -> ServerDetail
      [] kind \in {"nodetail", "badjson"} -> "Failed to run fact check"
      [] kind = "okbadjson" -> "Unexpected token < in JSON"
      [] OTHER -> "Failed to fetch"

\* faulty variant: a failed run drops the report on display
DataAfterFailureCleared(data) == {}

\* the catch block leaves data alone
DataAfterFailure(data) == data

\* faulty variant: the buttons are never disabled
RunDisabledNever == FALSE

\* the first card and its button are rendered when !data && !loading; the
\* Re-run button is disabled={loading}
RunDisabled == fcLoading

\* runFactCheck up to the await
runFactCheck ==
    /\ fcMounted
    /\ ~RunDisabled
    /\ fcReq.st = "idle"
    /\ fcLoading' = TRUE
    /\ fcError' = "null"
    /\ fcReq' = [fcReq EXCEPT !.st = "sent"]
    /\ UNCHANGED <<fcData, fcReports, fcMounted, existingData>>
    /\ UNCHANGED nonFcVars

\* the backend answers; a 2xx reply carries a new report
ServerFactCheck ==
    /\ fcReq.st = "sent"
    /\ \E kind \in FcKinds :
         /\ kind = "ok" => fcReports < MaxReports
         /\ fcReports' = IF kind = "ok" THEN fcReports + 1 ELSE fcReports
         /\ fcReq' = [fcReq EXCEPT
                         !.st = "resp", !.kind = kind,
                         !.result = IF kind = "ok" THEN {fcReports + 1}
                                    ELSE {}]
    /\ UNCHANGED <<fcLoading, fcData, fcError, fcMounted, existingData>>
    /\ UNCHANGED nonFcVars

\* runFactCheck after the await, in the mounted instance
FactCheckReply ==
    /\ fcReq.st = "resp"
    /\ IF fcReq.kind = "ok"
       THEN /\ fcData' = fcReq.result
            /\ UNCHANGED fcError
       ELSE /\ fcData' = DataAfterFailure(fcData)
            /\ fcError' = FactCheckError(fcReq.kind)
    /\ fcLoading' = FALSE
    /\ fcReq' = [NoFactCheck EXCEPT !.stale = fcReq.stale]
    /\ UNCHANGED <<fcReports, fcMounted, existingData>>
    /\ UNCHANGED nonFcVars

\* another tab of the dashboard is selected: the tab content is unmounted
UnmountFactCheck ==
    /\ fcMounted
    /\ fcReq.st # "idle" => fcReq.stale < MaxInFlight
    /\ fcMounted' = FALSE
    /\ fcLoading' = FALSE
    /\ fcData' = {}
    /\ fcError' = "null"
    /\ fcReq' = IF fcReq.st = "idle" THEN fcReq
                ELSE [NoFactCheck EXCEPT !.stale = fcReq.stale + 1]
    /\ UNCHANGED <<fcReports, existingData>>
    /\ UNCHANGED nonFcVars

\* runFactCheck after the await, in an instance that was unmounted: the
\* setters of that instance have no effect
StaleFactCheckSettles ==
    /\ fcReq.stale > 0
    /\ fcReq' = [fcReq EXCEPT !.stale = @ - 1]
    /\ UNCHANGED <<fcLoading, fcData, fcError, fcReports, fcMounted,
                   existingData>>
    /\ UNCHANGED nonFcVars

\* the fact-check tab is selected: useState(existingData || null)
MountFactCheck ==
    /\ ~fcMounted
    /\ fcMounted' = TRUE
    /\ fcLoading' = FALSE
    /\ fcData' = existingData
    /\ fcError' = "null"
    /\ UNCHANGED <<fcReq, fcReports, existingData>>
    /\ UNCHANGED nonFcVars

\* FactCheck mounted with or without existingData
FcInit ==
    /\ fcMounted = TRUE
    /\ existingData \in {{}, {ExistingReport}}
    /\ fcData = existingData
    /\ fcLoading = FALSE
    /\ fcError = "null"
    /\ fcReq = NoFactCheck
    /\ fcReports = 0

FcIdle ==
    /\ fcMounted = FALSE
    /\ existingData = {}
    /\ fcData = {}
    /\ fcLoading = FALSE
    /\ fcError = "null"
    /\ fcReq = NoFactCheck
    /\ fcReports = 0

FcNext ==
    \/ runFactCheck
    \/ ServerFactCheck
    \/ FactCheckReply
    \/ StaleFactCheckSettles
    \/ UnmountFactCheck
    \/ MountFactCheck

(***************************************************************************)
(* GateAnalysis of the credit engine.  A gate on display is known by its   *)
(* id and its name; its checks are those of the gate or group of that      *)
(* name.  Arrays are sequences: index i of the code is position i + 1.     *)
(***************************************************************************)
\* step_number of the waterfall steps
Steps == {5, 15, 25, 35}

\* const groups: name and range of the four groups
Groups ==
    << [name |-> "1. Policy & Market", range |-> <<0, 10>>],
       [name |-> "2. Data Integrity", range |-> <<10, 20>>],
       [name |-> "3. Financial Assessment", range |-> <<20, 30>>],
       [name |-> "4. Final Verdict", range |-> <<30, 99>>] >>

\* waterfallData.filter(w => w.step_number >= range[0] && < range[1])
GroupChecks(data, grp) ==
    {w \in data : w >= grp.range[1] /\ w < grp.range[2]}

\* groups.map((grp, i) => checks.length === 0 ? null : {id: i, ...})
MappedGroups(data) ==
    [i \in 1..Len(Groups) |->
        IF GroupChecks(data, Groups[i]) = {}
        THEN [id |-> i - 1, name |-> "null"]
        ELSE [id |-> i - 1, name |-> Groups[i].name]]

RECURSIVE FilterBoolean(_)
\* .filter(Boolean)
FilterBoolean(list) ==
    IF list = <<>> THEN <<>>
    ELSE IF Head(list).name = "null" THEN FilterBoolean(Tail(list))
    ELSE <<Head(list)>> \o FilterBoolean(Tail(list))

\* gates.map((g, i) => ({id: i, name: `${i + 1}. ${g.gate_name}`, ...}))
MemoGates(n) == [i \in 1..n |-> [id |-> i - 1, name |-> "memo gate"]]

\* let displayGates
displayGates ==
    IF gates > 0 THEN MemoGates(gates)
    ELSE IF waterfallData # {} THEN FilterBoolean(MappedGroups(waterfallData))
    ELSE <<>>

\* displayGates[expandedGate] is an element of the array
IndexValid(list, expanded) ==
    \A id \in expanded : id + 1 \in 1..Len(list)

\* a render throws when it reads .name of undefined
RenderThrows(list, expanded) == ~IndexValid(list, expanded)

\* the gates whose checks the detail panel lists
PanelGates(list, expanded) ==
    {list[id + 1] : id \in {e \in expanded : e + 1 \in 1..Len(list)}}

\* click on a circle of the stepper: toggleGate(gate.id), then the render
toggleGate(pos) ==
    /\ ~gateCrashed
    /\ pos \in 1..Len(displayGates)
    /\ LET id == displayGates[pos].id
       IN  /\ expandedGate' = IF expandedGate = {id} THEN {} ELSE {id}
           /\ gateClicked' = IF expandedGate = {id} THEN {} ELSE {pos}
    /\ gateCrashed' = RenderThrows(displayGates, expandedGate')
    /\ UNCHANGED <<gates, waterfallData>>
    /\ UNCHANGED nonGateVars

\* click on the header of the detail panel
ClosePanel ==
    /\ ~gateCrashed
    /\ displayGates # <<>>
    /\ expandedGate # {}
    /\ expandedGate' = {}
    /\ gateClicked' = {}
    /\ UNCHANGED <<gates, waterfallData, gateCrashed>>
    /\ UNCHANGED nonGateVars

\* GateAnalysis mounted on memo gates, on waterfall steps, or on neither
GateInit ==
    /\ gates \in 0..MaxGates
    /\ waterfallData \in SUBSET Steps
    /\ expandedGate = {}
    /\ gateClicked = {}
    /\ gateCrashed = FALSE

GateIdle ==
    /\ gates = 0
    /\ waterfallData = {}
    /\ expandedGate = {}
    /\ gateClicked = {}
    /\ gateCrashed = FALSE

GateNext ==
    \/ \E pos \in 1..Len(Groups) : toggleGate(pos)
    \/ ClosePanel

\* the components added after the first four, at rest
LateIdle == ErrIdle /\ FcIdle /\ GateIdle

MoreIdle == TabsIdle /\ UpIdle /\ ItIdle /\ AuthIdle /\ LateIdle

(***************************************************************************)
(* Specifications.                                                         *)
(***************************************************************************)
\* the dashboard as StartupPage mounts it with the record it fetched
DashInit ==
    /\ mounted = TRUE
    /\ backend \in {r \in DealRecord : r.ver = 0}
    /\ analysisData = backend
    /\ investmentDecision = FALSE
    /\ pollInterval = PollEffect(TRUE, analysisData)
    /\ polls = [i \in Slots |-> FreeSlot]
    /\ isRecalculating = FALSE
    /\ isCustomizeDialogOpen = FALSE
    /\ weights = DefaultWeights
    /\ rcPc = "idle"
    /\ rcBody = NoBody
    /\ rcResp = NoReply
    /\ toast = "none"
    /\ lateUpdate = FALSE
    /\ failedPolls = 0
    /\ recalcShown = 0

\* a dashboard at rest, for the specifications of the other components
DashIdle == DashInit /\ backend.dec


DashNext ==
    \/ PollTick
    \/ \E i \in Slots : ServerPoll(i)
    \/ \E i \in Slots : PollReply(i)
    \/ Unmount
    \/ BackendDecide
    \/ OpenDialog
    \/ CloseDialog
    \/ handleRecalculate
    \/ ServerGenerateMemo
    \/ RecalcPostReply
    \/ ServerGetDeal
    \/ RecalcGetReply

\* the dashboard with its poll, its recalculation and its teardown
DashSpecInit == DashInit /\ ListInit /\ PageInit /\ ChatInit /\ MoreIdle

SpecDash == DashSpecInit /\ [][DashNext]_vars

WeightsNext ==
    \/ \E k \in WeightKeys, v \in WeightChoices : handleWeightChange(k, v)
    \/ OpenDialog
    \/ CloseDialog
    \/ handleRecalculate
    \/ ServerGenerateMemo
    \/ RecalcPostReply
    \/ ServerGetDeal
    \/ RecalcGetReply

\* the customize dialog: the sliders and the recalculation they feed, on a
\* record that already carries its investment decision
IdleInit == DashIdle /\ ListInit /\ PageInit /\ ChatInit /\ MoreIdle

SpecWeights == IdleInit /\ [][WeightsNext]_vars

\* the deal list page and its deletes
SpecList == IdleInit /\ [][ListNext]_vars

\* the public interview page
SpecPage == IdleInit /\ [][PageNext]_vars

\* the investor chat widget
SpecChat == IdleInit /\ [][ChatNext]_vars

\* the four first components at rest
FirstIdle == DashIdle /\ ListInit /\ PageInit /\ ChatInit

\* the tab strip of both dashboards over every record
TabsSpecInit ==
    FirstIdle /\ TabsInit /\ UpIdle /\ ItIdle /\ AuthIdle /\ LateIdle

SpecTabs == TabsSpecInit /\ [][TabsNext]_vars

\* FileUpload in both variants under both hosts
UpSpecInit ==
    FirstIdle /\ TabsIdle /\ UpInit /\ ItIdle /\ AuthIdle /\ LateIdle

SpecUpload == UpSpecInit /\ [][UpNext]_vars

\* IssuesTab under every list of issues, and the dashboard's meeting dialog,
\* on a deal without an interview
ItSpecInit ==
    /\ FirstIdle /\ TabsIdle /\ UpIdle /\ AuthIdle /\ LateIdle
    /\ ItInit /\ srvInterview = "none"

SpecIssues == ItSpecInit /\ [][ItNext]_vars

\* IssuesTab with a founder name, in every status of the interview
InterviewInit ==
    /\ FirstIdle /\ TabsIdle /\ UpIdle /\ AuthIdle /\ LateIdle /\ ItInit
    /\ meetHost = "tab" /\ issues \in ShortLists /\ founderName = "n"

SpecInterview == InterviewInit /\ [][InterviewNext]_vars

SpecGenerate == InterviewInit /\ [][GenerateNext]_vars

\* the API client, AuthModal and the interview page's requests
AuthSpecInit ==
    FirstIdle /\ TabsIdle /\ UpIdle /\ ItIdle /\ AuthInit /\ LateIdle

SpecAuth == AuthSpecInit /\ [][AuthNext]_vars

\* the chat window opened, closed and cleared over the saved entries
StorageSpecInit ==
    DashIdle /\ ListInit /\ PageInit /\ StorageInit /\ MoreIdle

SpecStorage == StorageSpecInit /\ [][StorageNext]_vars

\* the toasts of handleRecalculate and of handleUploadClick over every reply
ErrSpecInit == FirstIdle /\ TabsIdle /\ UpIdle /\ ItIdle /\ AuthIdle
               /\ ErrInit /\ FcIdle /\ GateIdle

SpecErrors == ErrSpecInit /\ [][ErrNext]_vars

\* FactCheck with and without a report to start with
FcSpecInit == FirstIdle /\ TabsIdle /\ UpIdle /\ ItIdle /\ AuthIdle
              /\ ErrIdle /\ FcInit /\ GateIdle

SpecFactCheck == FcSpecInit /\ [][FcNext]_vars

\* GateAnalysis over every gate list
GateSpecInit == FirstIdle /\ TabsIdle /\ UpIdle /\ ItIdle /\ AuthIdle
                /\ ErrIdle /\ FcIdle /\ GateInit

SpecGates == GateSpecInit /\ [][GateNext]_vars

Spec == SpecDash

(***************************************************************************)
(* Properties of the investment-decision poll.                             *)
(***************************************************************************)
\* this step sends a poll request
PollIssued == \E i \in Slots : polls[i].st = "free" /\ polls'[i].st = "sent"

\* this step is the interval callback receiving the reply in slot i
PollReceived(i) == polls[i].st = "resp" /\ polls'[i].st = "free"

HasDecisionReply(i) == polls[i].res = "ok" /\ polls[i].data.dec

\* C1 as stated: once a poll reply carrying investment_decision has been
\* applied (investmentDecision is set by nothing else), no poll request is
\* sent again during the mount.
C1_NoPollAfterApplied == [][investmentDecision => ~PollIssued]_vars

\* C1, amended: the timer is live exactly while the mounted dashboard holds a
\* record without investment_decision, a poll request is sent only then, and
\* applying a poll reply that carries the decision clears the timer; polling
\* stays off for as long as the held record keeps a decision.
C1_PollWhileAbsent ==
    /\ [](pollInterval <=> (mounted /\ ~analysisData.dec))
    /\ [][/\ PollIssued => (mounted /\ ~analysisData.dec)
          /\ \A i \in Slots :
               (mounted /\ PollReceived(i) /\ HasDecisionReply(i))
                 => (analysisData'.dec /\ investmentDecision' /\ ~pollInterval')
         ]_vars

\* a poll reply with the decision was applied and the timer is off
C1_Witness ==
    /\ mounted /\ investmentDecision /\ analysisData.dec /\ ~pollInterval
    /\ toast = "Investment Decision Ready"

\* C2: the poll has no attempt limit and no backoff: however many replies
\* failed or came without investment_decision, while the dashboard is
\* mounted and holds no decision the timer is live and its next tick sends a
\* request (as far as the model has a slot left for it).
C2_PollNeverGivesUp ==
    (mounted /\ ~analysisData.dec)
      => /\ pollInterval
         /\ (\E i \in Slots : polls[i].st = "free") => ENABLED PollTick

\* replies without effect were received, as many as are counted, both polls
\* in flight failed again, and the timer is still live
C2_Witness ==
    /\ mounted /\ ~analysisData.dec /\ pollInterval
    /\ failedPolls = MaxFailed
    /\ \E i, j \in Slots :
         /\ polls[i].st = "resp" /\ polls[i].res = "throw"
         /\ polls[j].st = "resp" /\ polls[j].res = "non2xx"

\* C3: after the teardown no poll request is sent; the teardown leaves the
\* polls in flight as they are; and a reply with investment_decision that
\* arrives afterwards is still processed: it calls the state setter and
\* shows its toast.
C3_TeardownKeepsInFlight ==
    [][/\ ~mounted => ~PollIssued
       /\ (mounted /\ ~mounted') => polls' = polls
       /\ \A i \in Slots :
            (~mounted /\ PollReceived(i) /\ HasDecisionReply(i))
              => (lateUpdate' /\ toast' = "Investment Decision Ready")
      ]_vars

\* a poll reply was processed after the teardown (no poll was applied while
\* the dashboard was mounted, and no recalculation is the source of the
\* late update)
C3_Witness ==
    /\ ~mounted /\ lateUpdate /\ ~investmentDecision
    /\ toast = "Investment Decision Ready"

\* C4: replies are applied in the order they arrive, whatever they carry:
\* a poll reply with investment_decision replaces analysisData even when
\* the record on display is newer, and so does the refetch of a
\* recalculation.
C4_LastFetchWins ==
    [][/\ \A i \in Slots :
            (mounted /\ PollReceived(i) /\ HasDecisionReply(i))
              => analysisData' = polls[i].data
       /\ (mounted /\ rcPc = "getReply" /\ rcResp.res = "ok" /\ rcPc' = "idle")
              => analysisData' = rcResp.data
      ]_vars

\* the last update came from a poll and put an older record on display than
\* the one the recalculation had shown
C4_Witness ==
    /\ mounted
    /\ toast = "Investment Decision Ready"
    /\ analysisData.ver < recalcShown

(***************************************************************************)
(* Properties of the weighted recalculation.                               *)
(***************************************************************************)
SumOfFive(w) ==
    w["teamStrength"] + w["marketOpportunity"] + w["traction"]
      + w["claimCredibility"] + w["financialHealth"]

\* C9 as stated: the action is enabled exactly for the tuples that sum to
\* 100.
C9_EnabledIffHundred == (~GenerateDisabled) <=> (SumOfFive(weights) = 100)

\* C9, amended: the action is enabled exactly when the five weights sum to
\* 100 and no recalculation is running; no generate_memo request carries
\* weights that do not sum to 100.
C9_EnabledIffHundredAndIdle ==
    /\ (mounted /\ isCustomizeDialogOpen)
         => (ENABLED handleRecalculate
               <=> (SumOfFive(weights) = 100 /\ ~isRecalculating))
    /\ rcPc # "idle" => SumOfFive(rcBody) = 100

\* a request is running with weights other than the default ones, and the
\* sliders have since been moved off 100
C9_Witness ==
    /\ rcPc = "post"
    /\ rcBody # DefaultWeights
    /\ isCustomizeDialogOpen
    /\ SumOfFive(weights) # 100

\* C10: when handleRecalculate ends after both requests succeeded,
\* analysisData is the refetched record and the dialog is closed; when it
\* ends because a request failed, it leaves analysisData and the dialog as
\* they are.
C10_RecalcOutcome ==
    [][(mounted /\ rcPc # "idle" /\ rcPc' = "idle")
         => IF rcPc = "getReply" /\ rcResp.res = "ok"
            THEN analysisData' = rcResp.data /\ ~isCustomizeDialogOpen'
            ELSE /\ analysisData' = analysisData
                 /\ isCustomizeDialogOpen' = isCustomizeDialogOpen
      ]_vars

\* a recalculation succeeded and its record is on display; a later one
\* failed with the dialog open
C10_Witness ==
    /\ mounted /\ rcPc = "idle"
    /\ toast = "Update Failed"
    /\ isCustomizeDialogOpen
    /\ recalcShown >= 1 /\ analysisData.ver = recalcShown

(***************************************************************************)
(* Properties of the optimistic updates.                                   *)
(***************************************************************************)
DeleteClicked(d) == dels[d].st = "idle" /\ dels'[d].st = "sent"

DeleteSettled(d) == dels[d].st = "resp" /\ dels'[d].st = "idle"

\* C5: handleDelete takes the deal off the list before the reply arrives;
\* when the request fails the deal is back on the list and the destructive
\* toast is shown; when it succeeds the deal is off the list.
C5_DeleteContract ==
    [][\A d \in DealIds :
         /\ DeleteClicked(d) => d \notin startups'
         /\ (DeleteSettled(d) /\ dels[d].res # "ok")
              => (d \in startups' /\ listToast' = "Deletion Failed")
         /\ (DeleteSettled(d) /\ dels[d].res = "ok") => d \notin startups'
      ]_vars

\* this step is handleSendMessage of the interview page sending its request
PageSent == sendReq.st = "idle" /\ sendReq'.st = "sent"

\* this step is handleSendMessage of the interview page ending
PageSettled == sendReq.st = "resp" /\ sendReq'.st = "idle"

Front(seq) == SubSeq(seq, 1, Len(seq) - 1)

\* C6: a send appends the user message at once; nothing else changes the
\* list while the request is in flight; when the request fails the list
\* loses exactly that last message and gains none, so it is the history as
\* it was right before the send, and the error toast is shown.
C6_SendFailureRollsBack ==
    [][/\ PageSent => messages' = Append(messages, UserMessage(input))
       /\ (isSending /\ isSending') => messages' = messages
       /\ (PageSettled /\ sendReq.kind # "ok")
            => /\ messages # <<>>
               /\ messages[Len(messages)].role = "user"
               /\ messages' = Front(messages)
               /\ pageToast' = "Error"
      ]_vars

\* a send failed on a history that was not empty, and the history is back
C6_Witness ==
    /\ pageToast = "Error"
    /\ ~isSending
    /\ messages # <<>>
    /\ messages[Len(messages)] = AssistantMessage

ChatSent == chatReq.st = "idle" /\ chatReq'.st = "sent"

ChatSettled == chatReq.st = "resp" /\ chatReq'.st = "idle"

\* C7: a send of the investor chat appends the user message at once; nothing
\* else changes the list while the request is in flight; when the request
\* fails the list keeps the user message and gains exactly the fallback
\* message after it.
C7_ChatFailureAppendsFallback ==
    [][/\ ChatSent
            => chatMessages' = Append(chatMessages, ChatUserMessage(chatInput))
       /\ (chatLoading /\ chatLoading') => chatMessages' = chatMessages
       /\ (ChatSettled /\ chatReq.res # "ok")
            => /\ chatMessages[Len(chatMessages)].role = "user"
               /\ chatMessages' = Append(chatMessages, Fallback)
      ]_vars

\* a send failed: the list ends with the user message and the fallback
C7_Witness ==
    /\ ~chatLoading
    /\ Len(chatMessages) >= 3
    /\ chatMessages[Len(chatMessages)] = Fallback
    /\ chatMessages[Len(chatMessages) - 1].role = "user"

\* C8: whenever the validation did not return a 2xx body with valid true,
\* the page shows the error panel once the reply is in; the error panel is
\* never left and nothing of the page changes in it; no chat request is in
\* flight, none is sent, and the chat view is not shown.
C8_ValidationFailureIsTerminal ==
    /\ []((validateReq.st = "done" /\ validateReq.kind # "valid")
            => (View = "error" /\ sendReq.st = "idle" /\ ~isSending
                /\ messages = <<>> /\ ~ENABLED handleSendMessage))
    /\ [][View = "error" => (View' = "error" /\ UNCHANGED pageVars)]_vars

\* the validation returned 2xx with valid false and the page shows the error
\* panel
C8_Witness ==
    /\ validateReq.st = "done"
    /\ validateReq.kind = "invalid"
    /\ View = "error"

(***************************************************************************)
(* Properties of the tab strip.                                            *)
(***************************************************************************)
\* the three tabs a fast-mode record suppresses
ResearchOnly == {"risks", "decision", "fact-check"}

\* C11 as claimed: in fast mode none of the risk, fund-decision and
\* fact-check tabs is rendered, whatever the payload carries; in any other
\* mode all three are rendered.
C11_FastHidesOthersShowAll ==
    /\ tabData.mode = "fast" => tabList \cap ResearchOnly = {}
    /\ tabData.mode # "fast" => ResearchOnly \subseteq tabList

\* C11 amended: in fast mode none of the three tabs is rendered, whatever the
\* payload carries; in any other mode the risk and fact-check tabs are
\* rendered and, in the standard dashboard only, the fund-decision tab; the
\* credit variant has no fund-decision tab in any mode.
C11_FastHidesResearchTabs ==
    /\ tabData.mode = "fast" => tabList \cap ResearchOnly = {}
    /\ tabData.mode # "fast" =>
          /\ {"risks", "fact-check"} \subseteq tabList
          /\ "decision" \in tabList <=> tabVariant = "standard"

\* a fast-mode record that carries all three payloads after a refetch, and
\* none of their tabs
C11_Witness ==
    /\ tabData.mode = "fast"
    /\ tabData.risk /\ tabData.dec /\ tabData.fact
    /\ tabList \cap ResearchOnly = {}
    /\ tabList = FixedTabs(tabVariant)

\* C12: a completed interview with non-empty insights shows the Insights tab
\* and hides the Issues tab; an interview that is not completed and has
\* issues shows the Issues tab and hides the Insights tab; the two tabs are
\* never on display together.
C12_IssuesInsightsExclusive ==
    /\ (tabData.interview.status = "completed" /\ tabData.insights = "nonempty")
          => ("insights" \in tabList /\ "issues" \notin tabList)
    /\ (tabData.interview.status # "completed"
          /\ tabData.interview.issues = "nonempty")
          => ("issues" \in tabList /\ "insights" \notin tabList)
    /\ ~ ({"issues", "insights"} \subseteq tabList)

\* a completed interview that still lists issues and has insights: only the
\* Insights tab is rendered
C12_Witness ==
    /\ tabData.interview.status = "completed"
    /\ tabData.interview.issues = "nonempty"
    /\ tabData.insights = "nonempty"
    /\ "insights" \in tabList
    /\ "issues" \notin tabList

(***************************************************************************)
(* Properties of FileUpload.                                               *)
(***************************************************************************)
\* this step sends the upload request
UploadIssued == upReq.st = "idle" /\ upReq'.st = "sent"

\* the input the active tab asks for is present
RequiredPresent ==
    IF upVariant = "cma"
    THEN pitchDeck # "null" /\ cmaFile # "null"
    ELSE CASE activeTab = "pdf" -> pitchDeck # "null"
           [] activeTab = "video" -> videoFile # "null"
           [] activeTab = "audio" -> audioFile # "null"
           [] OTHER -> textInput \notin {"", " "}

\* a click on Start Analysis with an input missing: an inline error, no
\* request, no onGenerate, isLoading still false
RejectedClick ==
    (handleUploadClick /\ ~RequiredPresent) =>
        /\ upError' # "null"
        /\ ~upLoading'
        /\ upReq' = upReq /\ fetchReq' = fetchReq
        /\ ~generated' /\ route' = route

\* C13 as claimed: no upload request is issued unless a pitch deck is present
\* and, in the CMA variant, a CMA report too; a click with an input missing
\* sets an inline error, leaves isLoading false and calls neither the
\* network nor onGenerate.
C13_NoUploadWithoutDeck ==
    [][/\ UploadIssued =>
            /\ pitchDeck # "null"
            /\ upVariant = "cma" => cmaFile # "null"
       /\ RejectedClick]_vars

\* C13 amended: no upload request is issued unless the input of the active
\* tab is present (a pitch deck and a CMA report in the CMA variant; in the
\* multi-input variant the file of the pdf, video or audio tab, or
\* non-blank text), and the request carries it; a click with that input
\* missing sets an inline error, leaves isLoading false and calls neither
\* the network nor onGenerate.
C13_NoUploadWithoutInput ==
    [][/\ UploadIssued =>
            /\ RequiredPresent
            /\ IF upVariant = "cma"
               THEN upReq'.body.file # "null"
                    /\ upReq'.body.cma_report # "null"
               ELSE upReq'.body.file # "null"
                    \/ upReq'.body.text_input \notin {"", " "}
       /\ RejectedClick]_vars

\* the CMA variant after a click with a pitch deck and no CMA report
C13_Witness ==
    /\ upVariant = "cma"
    /\ pitchDeck # "null" /\ cmaFile = "null"
    /\ upError = "Please provide both a Pitch Deck and CMA Report."
    /\ ~upLoading /\ upReq.st = "idle"

\* this step handles an upload reply with a non-2xx status
UploadRefused ==
    /\ upReq.st = "resp" /\ upReq'.st = "idle"
    /\ upReq.kind \in {"detail", "nodetail", "badjson"}

\* C14: when the upload request returns non-2xx, the detail message of the
\* server is shown verbatim, the chosen files and the processing mode are
\* unchanged, onGenerate is not invoked, and the upload button is enabled
\* again on the same form.
C14_RefusedUploadKeepsForm ==
    [][(UploadRefused /\ upMounted) =>
          /\ upReq.kind = "detail" => upError' = ServerDetail
          /\ upError' # "null"
          /\ upToast' = "Upload Failed"
          /\ formVars' = formVars
          /\ ~generated' /\ route' = route /\ fetchReq' = fetchReq
          /\ isUploadDialogOpen' = isUploadDialogOpen
          /\ upMounted' /\ ~upLoading']_vars

\* the server's detail on display over a form that still holds its files and
\* can be submitted again
C14_Witness ==
    /\ upError = ServerDetail
    /\ upToast = "Upload Failed"
    /\ upMounted /\ ~upLoading /\ upReq.st = "idle"
    /\ pitchDeck # "null"
    /\ ENABLED handleUploadClick

\* this step handles a 2xx upload reply carrying an identifier
UploadSucceeded ==
    upReq.st = "resp" /\ upReq.kind = "ok" /\ upReq'.st = "idle"

\* C15: on a successful upload the caller is taken to the detail view of the
\* deal whose identifier the upload response returned.
C15_SuccessOpensReturnedDeal ==
    [][UploadSucceeded => route' = Route("startup", upReq.id)]_vars

(***************************************************************************)
(* Properties of IssuesTab and of the meeting dialog.                      *)
(***************************************************************************)
\* this step sends the initiate request
InitiateIssued == meetReq.st = "idle" /\ meetReq'.st = "sent"

\* the rows of the list whose checkbox is checked
CheckedRows == {i \in 1..Len(issues) : issues[i] \in selectedFields}

\* C16: every initiate request sent from the issues tab carries as
\* selected_fields exactly the fields of the issues checked at that moment,
\* and none is sent with an empty selection.
C16_OnlySelectedSent ==
    [][(InitiateIssued /\ meetHost = "tab") =>
          /\ meetReq'.withFields
          /\ meetReq'.selected_fields = {issues[i] : i \in CheckedRows}
          /\ meetReq'.selected_fields = selectedFields
          /\ meetReq'.selected_fields # {}]_vars

\* an invitation in flight for one of two listed issues, the other one
\* having been deselected
C16_Witness ==
    /\ meetHost = "tab"
    /\ meetReq.st = "sent"
    /\ allFields(issues) = {"f1", "f2"}
    /\ meetReq.selected_fields = {"f1"}

\* this step sends the reset request
ResetIssued == resetReq.st = "idle" /\ resetReq'.st = "sent"

\* this step is the backend answering a request of the investor
ClientCaused ==
    \/ meetReq.st = "sent" /\ meetReq'.st = "resp"
    \/ resetReq.st = "sent" /\ resetReq'.st = "resp"

MeetSettled == meetReq.st = "resp" /\ meetReq'.st = "idle"

\* C18: an initiate request is issued only when founder name and e-mail are
\* both non-empty and no initiate request is in flight; on success the
\* meeting dialog closes and the e-mail field is cleared; on failure the
\* dialog stays as it is with the entered name and e-mail retained.
C18_InvitationGuard ==
    /\ [](meetReq.st # "idle" <=> isSettingMeeting)
    /\ [][/\ InitiateIssued =>
               /\ founderName # "" /\ founderEmail # ""
               /\ ~isSettingMeeting
               /\ meetReq'.name = founderName
               /\ meetReq'.email = founderEmail
          /\ (MeetSettled /\ meetReq.kind = "ok") =>
               (~isMeetingDialogOpen' /\ founderEmail' = "")
          /\ (MeetSettled /\ meetReq.kind # "ok") =>
               /\ isMeetingDialogOpen' = isMeetingDialogOpen
               /\ founderName' = founderName
               /\ founderEmail' = founderEmail
               /\ ~isSettingMeeting'
          ]_vars

\* a refused invitation: the dialog is still open with both inputs filled
C18_Witness ==
    /\ itToast = "Failed to Set Meeting"
    /\ isMeetingDialogOpen
    /\ founderName = "n" /\ founderEmail = "e"
    /\ meetReq.st = "idle" /\ ~isSettingMeeting

(***************************************************************************)
(* Properties of the API client.                                           *)
(***************************************************************************)
HasBearer(request) == Bearer \in request.headers

HasAuthorization(request) ==
    \E h \in request.headers : h[1] = "Authorization"

\* authenticatedFetch ends only by handing its request to fetch, with the
\* Bearer header exactly when a user was signed in and getIdToken answered
AlwaysIssued ==
    afPc # "idle" /\ afPc' = "idle" =>
        /\ fetches' = fetches + 1
        /\ lastFetch'.url = afCall.url
        /\ lastFetch'.via = "authenticatedFetch"
        /\ afCall.headers \subseteq lastFetch'.headers
        /\ IF afCall.user /\ afCall.token = "ok"
           THEN HasBearer(lastFetch')
           ELSE ~HasAuthorization(lastFetch')

\* the call in flight never leaves authenticatedFetch backwards
NeverBlocked ==
    /\ afPc = "getAuthHeaders" => afPc' \in {"getAuthHeaders", "fetch"}
    /\ afPc = "fetch" => afPc' \in {"fetch", "idle"}

\* C19 as stated: every request other than those of the public interview
\* endpoints is handed to fetch by authenticatedFetch, which always issues
\* the request, with the Bearer header when a user is signed in and the
\* token is retrieved and with no Authorization header otherwise.
C19_AllButPublicAuthenticated ==
    /\ [](lastFetch # NoFetchYet /\ lastFetch.url \notin PublicCalls
              => lastFetch.via = "authenticatedFetch")
    /\ [][AlwaysIssued /\ NeverBlocked]_vars

\* C19: every request other than those of the public interview endpoints
\* and of the sign-in endpoints api/auth/* is handed to fetch by
\* authenticatedFetch; the sign-in requests carry no Authorization header;
\* authenticatedFetch always issues the request, with the Bearer header
\* when a user is signed in and the token is retrieved and with no
\* Authorization header otherwise.
C19_AllButPublicAndSignInAuthenticated ==
    /\ [](lastFetch # NoFetchYet
              => /\ lastFetch.url \notin PublicCalls \cup SignInCalls
                       => lastFetch.via = "authenticatedFetch"
                 /\ lastFetch.url \in SignInCalls
                       => /\ lastFetch.via = "fetch"
                          /\ ~HasAuthorization(lastFetch))
    /\ [][AlwaysIssued /\ NeverBlocked]_vars

\* a request went out through authenticatedFetch with a user signed in and
\* without an Authorization header, after an earlier request
C19_Witness ==
    /\ lastFetch.via = "authenticatedFetch"
    /\ ~HasAuthorization(lastFetch)
    /\ currentUser
    /\ fetches >= 2

(***************************************************************************)
(* Properties of the chat history cache.                                   *)
(***************************************************************************)
ChatMounts == ~chatMounted /\ chatMounted'

\* the entries of localStorage that the step changes
Written == {k \in ChatDeals : storage'[k] # storage[k]}

\* C20: the chat history is cached under the key of the deal.  A Chatbot
\* that mounts shows the list saved under the key of its deal, or the single
\* greeting when there is no entry or the entry cannot be parsed; after
\* every change of the message list to a non-empty list the key of the deal
\* holds exactly that list; and a step writes no key other than that of the
\* deal of the instance that takes it.
C20_HistoryCachedPerDeal ==
    [][/\ ChatMounts
            => chatMessages' = IF storage[chatDeal'][1] = "json"
                               THEN storage[chatDeal'][2]
                               ELSE <<Greeting>>
       /\ (chatMounted' /\ chatMessages' # chatMessages /\ chatMessages' # <<>>)
            => storage'[chatDeal'] = <<"json", chatMessages'>>
       /\ Written \subseteq
              {IF ChatSettled THEN chatReq.deal ELSE chatDeal'}
      ]_vars

\* the chat of deal b, started from the greeting, holds a failed exchange and
\* is cached under the key of b, next to an untouched unusable entry of a
C20_Witness ==
    /\ chatMounted /\ chatDeal = "b"
    /\ chatMessages = <<Greeting, ChatUserMessage("a"), Fallback>>
    /\ storage["b"] = <<"json", chatMessages>>
    /\ storage["a"] = Garbage

(***************************************************************************)
(* Properties of the messages of failed requests.                          *)
(***************************************************************************)
\* the texts the browser's own exceptions carry
ExceptionTexts == {"Failed to fetch", "Unexpected token < in JSON"}

\* the fallback strings written in the two handlers
FixedFallbacks ==
    {"File upload failed", "An unknown error occurred",
     "Failed to generate the new memo summary.",
     "Failed to fetch the updated analysis data."}

GenericMessages ==
    {"An unexpected error occurred during upload.",
     "An unexpected error occurred while regenerating the summary."}

FailureShown == errShown.title \in {"Update Failed", "Upload Failed"}

\* C21 as stated: for a non-2xx reply the message is the detail of the error
\* body when there is one and a fixed fallback string otherwise; a network
\* failure or a body that does not parse shows a generic unexpected-error
\* message, never the text of the exception.
C21_DetailElseGeneric ==
    FailureShown =>
        /\ errShown.kind = "detail" => errShown.description = ServerDetail
        /\ errShown.kind = "nodetail"
              => errShown.description \in FixedFallbacks
        /\ errShown.kind = "badjson"
              => errShown.description \in FixedFallbacks \cup GenericMessages
        /\ errShown.kind \in {"okbadjson", "throw", "throwblank"}
              => errShown.description \in GenericMessages

\* C21: for a non-2xx reply to the upload or to the generate_memo request
\* the message is the detail of the error body when there is one and a fixed
\* fallback string otherwise; a non-2xx reply to the follow-up request of
\* the recalculation shows a fixed string whatever its body; a network
\* failure or a 2xx body that does not parse shows the text of the
\* exception, and the generic message only when the exception has no text;
\* a non-2xx body that does not parse shows a fixed string after an upload
\* and the text of the exception after generate_memo.
C21_DetailElseExceptionText ==
    FailureShown =>
        /\ (errShown.kind = "detail" /\ errShown.stage = "post")
              => errShown.description = ServerDetail
        /\ (errShown.kind = "nodetail" /\ errShown.stage = "post")
              => errShown.description \in FixedFallbacks
        /\ (errShown.kind \in {"detail", "nodetail", "badjson"}
               /\ errShown.stage = "get")
              => errShown.description \in FixedFallbacks
        /\ (errShown.kind = "badjson" /\ errShown.stage = "post")
              => IF errShown.handler = "upload"
                 THEN errShown.description \in FixedFallbacks
                 ELSE errShown.description \in ExceptionTexts
        /\ errShown.kind \in {"okbadjson", "throw"}
              => errShown.description \in ExceptionTexts
        /\ errShown.kind = "throwblank"
              => errShown.description \in GenericMessages

\* the recalculation failed on the network and the toast shows the text of
\* the exception
C21_Witness ==
    /\ errShown.handler = "recalculate"
    /\ errShown.title = "Update Failed"
    /\ errShown.kind = "throw"
    /\ errShown.description = "Failed to fetch"

(***************************************************************************)
(* Properties of a successful validation.                                  *)
(***************************************************************************)
ValidatedOk ==
    validateReq.st = "resp" /\ validateReq'.st = "done"
    /\ validateReq.kind = "valid"

\* C22 as stated: when the validation returns 2xx with valid true the
\* message list becomes exactly the returned chat_history, and the page then
\* accepts a message.
C22_ValidLoadsAndAccepts ==
    [][ValidatedOk =>
          /\ messages' = validateReq.history
          /\ View' = "chat"
          /\ ~InputDisabled'
      ]_vars

\* C22: when the validation returns 2xx with valid true the message list
\* becomes exactly the returned chat_history and the chat view is shown; the
\* page then accepts messages exactly when the returned status is active:
\* with any other status the input and the send button stay disabled.
C22_ValidLoadsAndAcceptsIfActive ==
    /\ [][ValidatedOk =>
            /\ messages' = validateReq.history
            /\ View' = "chat"
            /\ InputDisabled' <=> validateReq.status # "active"
        ]_vars
    /\ [](View = "chat" =>
            /\ (validationData = "active" /\ ~isSending) => ~InputDisabled
            /\ (validationData = "active" /\ ~isSending /\ Trim(input) # "")
                  => ~SendDisabled
            /\ validationData # "active" => (InputDisabled /\ SendDisabled))

\* the history was loaded and a further message of the founder was accepted
C22_Witness ==
    /\ validateReq.st = "done" /\ validateReq.kind = "valid"
    /\ validationData = "active"
    /\ Len(messages) >= 2
    /\ messages[1] = AssistantMessage
    /\ messages[2].role = "user"

(***************************************************************************)
(* Properties of FactCheck.                                                *)
(***************************************************************************)
FactCheckStarted == fcReq.st = "idle" /\ fcReq'.st = "sent"

FactCheckSettled == fcReq.st = "resp" /\ fcReq'.st = "idle" /\ fcMounted'

\* C23: when a fact-check run fails the report on display is unchanged, an
\* error message is set and loading is false again; starting a run clears
\* the error; no run is started while one is loading.
C23_FailedRunKeepsReport ==
    [][/\ (FactCheckSettled /\ fcReq.kind # "ok")
            => /\ fcData' = fcData
               /\ fcError' # "null"
               /\ ~fcLoading'
       /\ FactCheckStarted
            => /\ ~fcLoading
               /\ fcLoading'
               /\ fcError' = "null"
               /\ fcData' = fcData
      ]_vars

\* a re-run failed: the report of the first run is still on display, with
\* the error message
C23_Witness ==
    /\ fcMounted
    /\ fcData = {1}
    /\ fcError = "Failed to run fact check"
    /\ ~fcLoading
    /\ fcReq.st = "idle"


\* every listed issue has its checkbox checked
EveryIssueSelected == allFields(issues) \subseteq selectedFields

\* C24: whenever the list of issues is shown, "all selected" holds exactly
\* when every issue is selected; a toggle-all invoked when every issue is
\* selected empties the selection, and invoked in any other state it leaves
\* every issue selected with "all selected" holding, for every list of
\* issues, lists in which two issues share a field included
C24_SelectAllDerived ==
    /\ [](ListShown => (allSelected <=> EveryIssueSelected))
    /\ [][handleToggleAll =>
            IF EveryIssueSelected
            THEN selectedFields' = {}
            ELSE EveryIssueSelected' /\ allSelected'
         ]_vars


\* no delete request is in flight
AllDeletesSettled == \A d \in DealIds : dels[d].st = "idle"

\* C25: once every delete request has settled, the list on display is the
\* loaded list minus exactly the deals whose DELETE succeeded (the deals the
\* backend still holds), whatever the interleaving of deletes on distinct
\* deals: a rollback neither brings back a deleted deal nor drops another
C25_SettledListMatchesDeletes ==
    AllDeletesSettled => startups = serverDeals


\* this step is handleSendMessage of a Chatbot instance ending, for a request
\* that was in flight when the history of its deal was cleared
ClearedRequestSettles ==
    chatReq.st = "resp" /\ chatReq'.st = "idle" /\ chatReq.cleared

\* the entry holds a message of the list
HoldsMessageOf(entry, list) ==
    /\ Parsable(entry)
    /\ \E i \in 1..Len(Parse(entry)), j \in 1..Len(list) :
         Parse(entry)[i] = list[j] /\ list[j].role = "user"

\* C26: handleClearChat leaves no entry or the greeting alone under the key
\* of the deal, and the reply of a request that was in flight when the chat
\* was cleared puts none of the messages sent before the clear back into
\* the entry of that deal
C26_ClearedHistoryStaysCleared ==
    [][/\ handleClearChat
            => ~HoldsMessageOf(storage'[storageKey(chatDeal)],
                               <<ChatUserMessage("a")>>)
       /\ ClearedRequestSettles
            => ~HoldsMessageOf(storage'[storageKey(chatReq.deal)],
                               chatReq.newMessages)
      ]_vars


\* the runFactCheck calls whose reply has not been handled
FactChecksInFlight == fcReq.stale + (IF fcReq.st = "idle" THEN 0 ELSE 1)

\* a guarded action starts only with its busy flag false, and the step that
\* handles the reply of its request leaves the busy flag false
BusyFlagsFollowRequests ==
    /\ (rcPc = "idle" /\ rcPc' # "idle") => ~isRecalculating /\ isRecalculating'
    /\ (rcPc # "idle" /\ rcPc' = "idle") => ~isRecalculating'
    /\ (upReq.st = "idle" /\ upReq'.st = "sent") => ~upLoading /\ upLoading'
    /\ (upReq.st = "resp" /\ upReq'.st = "idle") => ~upLoading'
    /\ (meetReq.st = "idle" /\ meetReq'.st = "sent")
         => ~isSettingMeeting /\ isSettingMeeting'
    /\ (meetReq.st = "resp" /\ meetReq'.st = "idle") => ~isSettingMeeting'
    /\ (resetReq.st = "idle" /\ resetReq'.st = "sent")
         => ~isResetting /\ isResetting'
    /\ (resetReq.st = "resp" /\ resetReq'.st = "idle") => ~isResetting'
    /\ PageSent => ~isSending /\ isSending'
    /\ PageSettled => ~isSending'
    /\ (chatReq.st = "idle" /\ chatReq'.st = "sent")
         => ~chatLoading /\ chatLoading'
    /\ (chatReq.st = "resp" /\ chatReq'.st = "idle" /\ chatReq.live)
         => ~chatLoading'
    /\ FactCheckStarted => ~fcLoading /\ fcLoading'
    /\ FactCheckSettled => ~fcLoading'

\* C27: each guarded action (recalculation, upload, invitation, interview
\* reset, interview chat send, investor chat send, fact check) starts only
\* with its busy flag false and has its busy flag false again when its
\* request settles, and no more than one request of the action is in flight
C27_OneRequestPerGuardedAction ==
    /\ [](FactChecksInFlight <= 1)
    /\ [][BusyFlagsFollowRequests]_vars


\* this step is the interval callback of the mounted dashboard replacing
\* analysisData and showing "Investment Decision Ready"
ReadyUpdate(i) == PollReceived(i) /\ PollApplies(polls[i]) /\ mounted

\* C28: within one mount of the dashboard the "Investment Decision Ready"
\* update happens at most once: no poll reply is applied after one has been
\* (investmentDecision is set by the first), however many polls are in
\* flight when the backend first returns an investment decision
C28_ReadyUpdateOnce ==
    [][\A i \in Slots : ReadyUpdate(i) => ~investmentDecision]_vars


\* the reply of poll i is non-2xx, or the exchange threw, or the record it
\* carries has no investment_decision
ReplyWithoutDecision(i) == polls[i].res # "ok" \/ ~polls[i].data.dec

\* C29: the interval callback handling a reply that is non-2xx, a thrown
\* exchange, or a record without investment_decision leaves analysisData and
\* investmentDecision as they were, whatever else the record carries
C29_PollWithoutDecisionDiscarded ==
    [][\A i \in Slots :
         (PollReceived(i) /\ ReplyWithoutDecision(i))
            => /\ analysisData' = analysisData
               /\ investmentDecision' = investmentDecision
      ]_vars

\* a poll without effect has been counted, the memo at the backend is not
\* the one on display, and another 2xx reply carrying that newer memo and
\* no decision is about to be handled
C29_Witness ==
    /\ mounted /\ failedPolls > 0
    /\ backend.ver # analysisData.ver
    /\ \E i \in Slots :
         /\ polls[i].st = "resp" /\ polls[i].res = "ok"
         /\ ~polls[i].data.dec /\ polls[i].data.ver # analysisData.ver


\* C30: whenever a gate is expanded, the expanded id is an index of the
\* gates on display, no render has thrown, and the detail panel lists the
\* gate that was clicked on the stepper, for memo gates and for gates
\* rebuilt from waterfall steps with the empty groups filtered out
C30_PanelShowsClickedGate ==
    expandedGate # {} =>
        /\ IndexValid(displayGates, expandedGate)
        /\ ~gateCrashed
        /\ PanelGates(displayGates, expandedGate)
             = {displayGates[pos] : pos \in gateClicked}

====
